---- MODULE Spec2Model ----
(***************************************************************************)
(* Review Nudge: the GitHubService of the extension (remote fetcher and    *)
(* local review-history store), modelled from githubService.ts, and the    *)
(* panel, timers and commands of extension.ts and prReviewPanel.ts.        *)
(*                                                                         *)
(* Representation.                                                         *)
(*   - A Date is an integer number of hours since an epoch (UTC).          *)
(*   - An ISO-8601 string is a record [date, time, ms]: the part before    *)
(*     the 'T' (a day number standing for 'YYYY-MM-DD'), the hour of the   *)
(*     day, and whether the string carries milliseconds (Date.toISOString  *)
(*     writes '.000Z', GitHub's submitted_at does not).                    *)
(*   - A ReviewEvent keeps prId, prNumber, repository, reviewedAt and      *)
(*     reviewState; prTitle and prUrl are payload copied from the pull     *)
(*     request and are determined by prId.                                 *)
(*   - The persisted reviewStats object is a function from date keys to    *)
(*     DailyReviewStats records; globalState.update installs the new value *)
(*     at the call, so a read that follows sees it.                        *)
(***************************************************************************)
EXTENDS Integers, Sequences, FiniteSets, TLC

VARIABLES
    reviewStats,    \* globalState 'reviewStats' (ReviewStats)
    octokit,        \* GitHubService.octokit: "null" or "client"
    tasks,          \* the store handlers in flight, one record per slot
    lastOp,         \* the store operation that changed reviewStats last
    prevResync,     \* the last clearAndResync that ran alone: what it fetched and left
    cachedPRs,      \* GitHubService.cachedPRs
    lastReviewCount,\* GitHubService.lastReviewCount
    lastCall,       \* the fetcher call that completed last, with its result
    initDone,       \* the constructor's initialize() has run
    query,          \* the last range query, with its result
    currentPanel,   \* PRReviewPanel.currentPanel is defined
    webviews,       \* the webview panels of the extension that are open
    hasShownThisSession, \* extension.ts: hasShownThisSession
    config,         \* the settings activate() has read
    autoShowTimer,  \* the 2-second auto-show timer and its callback
    refreshInterval,\* the interval timer: "off", "initial" or "replaced"
    refreshTick,    \* the interval callback in flight
    command,        \* the clearAndResync command in flight
    previousReviewCount, \* globalState 'previousReviewCount'
    dismissed,      \* the dismiss command has closed a panel in this session
    openedBy,       \* who created the panel that is open
    revealed,       \* a later createOrShow has revealed the panel that is open
    lastCheck,      \* the last checkForNewReviews call, with what it returned
    lastSyncDate,   \* globalState 'lastSyncDate'
    today,          \* the date string activate() has computed
    startupTimer    \* the 5-second startup sync timer and its callback

extVars == <<currentPanel, webviews, hasShownThisSession, config, autoShowTimer,
             refreshInterval, refreshTick, command, previousReviewCount,
             dismissed, openedBy, revealed, lastCheck, lastSyncDate, today,
             startupTimer>>

vars == <<reviewStats, octokit, tasks, lastOp, prevResync,
          cachedPRs, lastReviewCount, lastCall, initDone, query, extVars>>

storeVars == <<reviewStats, tasks, lastOp, prevResync>>
fetchVars == <<cachedPRs, lastReviewCount, lastCall, initDone>>
startupVars == <<lastSyncDate, today, startupTimer>>
panelVars == <<currentPanel, webviews, hasShownThisSession, config, autoShowTimer,
               refreshInterval, refreshTick, command, dismissed, openedBy, revealed>>

----------------------------------------------------------------------------
(* Bounds of the model *)

MaxItems == 2       \* items in one search response
MaxReviews == 2     \* reviews in one pull request's review list
MaxStored == 3      \* events stored or waiting to be recorded
RangeDays == 3      \* days spanned by the instants of a range query
MaxRecorded == 2    \* events recorded before a range query

(* Program constants *)

HoursPerDay == 24   \* the day in Date arithmetic (24 * 60 * 60 * 1000 ms)

----------------------------------------------------------------------------
(* Dates and ISO strings *)

\* Date.prototype.toISOString(): UTC date, UTC time, with milliseconds
toISOString(t) ==
    [date |-> t \div HoursPerDay, time |-> t % HoursPerDay, ms |-> TRUE]

\* s.split('T')[0]: the text before the 'T' of an ISO string
SplitT0(s) == s.date

\* an ISO string as GitHub writes submitted_at (seconds precision)
GitHubTime(d, h) == [date |-> d, time |-> h, ms |-> FALSE]

----------------------------------------------------------------------------
(* The remote: identities and pull requests *)

Me == "me"
Other == "other"

\* search items: id, number, repository (owner/repo), author login
PR1 == [id |-> 101, number |-> 1, repository |-> "o/a", author |-> Other]
PR2 == [id |-> 102, number |-> 1, repository |-> "o/b", author |-> Other]
PR3 == [id |-> 103, number |-> 2, repository |-> "o/a", author |-> Me]
PRs == {PR1, PR2, PR3}

\* submitted_at of a review that was not submitted (null): no date
NoTime == [date |-> -1, time |-> 0, ms |-> FALSE]

\* entries of a pull request's review list: reviewer, submitted_at, state
ReviewPool ==
    { [user |-> Me,    submitted_at |-> GitHubTime(0, 10), state |-> "APPROVED"],
      [user |-> Me,    submitted_at |-> GitHubTime(1, 10), state |-> "COMMENTED"],
      [user |-> Me,    submitted_at |-> NoTime,            state |-> "PENDING"],
      [user |-> Other, submitted_at |-> GitHubTime(0, 10), state |-> "CHANGES_REQUESTED"] }

\* the instants at which the user clicks a pull request (new Date())
ClickTimes == {11, 35}

----------------------------------------------------------------------------
(* The history store: pure parts of the mutating methods *)

\* {}: the default of globalState.get('reviewStats', {}) and the cleared map
EmptyStats == [d \in {} |-> 0]

\* a clear that resets the counts and leaves the lists
clearedStatsCountsOnly(stats) ==
    [d \in DOMAIN stats |-> [stats[d] EXCEPT !.count = 0]]

\* a resync that goes to the fetch with the map as it finds it
clearedStatsSkipped(stats) == stats

\* the value clearAndResync writes over 'reviewStats' before it syncs
clearedStats(stats) == EmptyStats

\* the freshly created DailyReviewStats of recordReview
NewDay(date) == [date |-> date, count |-> 0, reviews |-> <<>>]

\* a find that looks at the last event of the day only
existingReviewLastOnly(reviews, review) ==
    /\ reviews # <<>>
    /\ reviews[Len(reviews)].prId = review.prId
    /\ reviews[Len(reviews)].reviewedAt = review.reviewedAt

\* reviews.find(r => r.prId === review.prId && r.reviewedAt === review.reviewedAt)
existingReview(reviews, review) ==
    \E i \in 1..Len(reviews) :
        /\ reviews[i].prId = review.prId
        /\ reviews[i].reviewedAt = review.reviewedAt

\* recordReview with the duplicate check left out
recordReviewNoFind(stats, review) ==
    LET date == SplitT0(review.reviewedAt)
        old == IF date \in DOMAIN stats THEN stats[date] ELSE NewDay(date)
        pushed == Append(old.reviews, review)
    IN [d \in DOMAIN stats \cup {date} |->
            IF d = date
            THEN [date |-> old.date, count |-> Len(pushed), reviews |-> pushed]
            ELSE stats[d]]

\* recordReview pushing at the front of the day's list
recordReviewUnshift(stats, review) ==
    LET date == SplitT0(review.reviewedAt)
        old == IF date \in DOMAIN stats THEN stats[date] ELSE NewDay(date)
        pushed == <<review>> \o old.reviews
    IN IF ~existingReview(old.reviews, review)
       THEN [d \in DOMAIN stats \cup {date} |->
                IF d = date
                THEN [date |-> old.date, count |-> Len(pushed), reviews |-> pushed]
                ELSE stats[d]]
       ELSE stats

\* recordReview writing back a day it has built from the event alone, as a
\* write from a copy read before the other writers would
recordReviewOverwriteDay(stats, review) ==
    LET date == SplitT0(review.reviewedAt)
        old == IF date \in DOMAIN stats THEN stats[date] ELSE NewDay(date)
    IN IF ~existingReview(old.reviews, review)
       THEN [d \in DOMAIN stats \cup {date} |->
                IF d = date
                THEN [date |-> old.date, count |-> 1, reviews |-> <<review>>]
                ELSE stats[d]]
       ELSE stats

\* recordReview: the value of 'reviewStats' after the call.  The day is
\* created when absent, the event is pushed unless (prId, reviewedAt) is
\* already in the day's list, and only then is the map written back.
recordReview(stats, review) ==
    LET date == SplitT0(review.reviewedAt)
        old == IF date \in DOMAIN stats THEN stats[date] ELSE NewDay(date)
        pushed == Append(old.reviews, review)
    IN IF ~existingReview(old.reviews, review)
       THEN [d \in DOMAIN stats \cup {date} |->
                IF d = date
                THEN [date |-> old.date, count |-> Len(pushed), reviews |-> pushed]
                ELSE stats[d]]
       ELSE stats

\* the day record after a filter of its list: count = reviews.length
Refiltered(dayStat, kept) ==
    [date |-> dayStat.date, count |-> Len(kept), reviews |-> kept]

\* drop the days whose count is 0 (delete stats[date])
DropEmptyDays(stats) ==
    [d \in {e \in DOMAIN stats : stats[e].count # 0} |-> stats[d]]

\* removeReviewByPR that leaves the count of the day as it was
removeReviewByPRStaleCount(stats, prNumber, repository) ==
    DropEmptyDays(
        [d \in DOMAIN stats |->
            [date |-> stats[d].date, count |-> stats[d].count,
             reviews |-> SelectSeq(stats[d].reviews,
                LAMBDA review : ~(review.prNumber = prNumber
                                  /\ review.repository = repository))]])

\* removeReviewByPR that compares the number of the pull request alone
removeReviewByPRNumberOnly(stats, prNumber, repository) ==
    DropEmptyDays(
        [d \in DOMAIN stats |->
            Refiltered(stats[d],
                SelectSeq(stats[d].reviews,
                    LAMBDA review : ~(review.prNumber = prNumber)))])

\* removeReviewByPR: the value of 'reviewStats' after the call
removeReviewByPR(stats, prNumber, repository) ==
    DropEmptyDays(
        [d \in DOMAIN stats |->
            Refiltered(stats[d],
                SelectSeq(stats[d].reviews,
                    LAMBDA review : ~(review.prNumber = prNumber
                                      /\ review.repository = repository)))])

\* cleanupLocalViewedReviews that keeps the days it has emptied
cleanupLocalViewedReviewsKeepDays(stats) ==
    [d \in DOMAIN stats |->
        Refiltered(stats[d],
            SelectSeq(stats[d].reviews,
                LAMBDA review : review.reviewState # "VIEWED"))]

\* cleanupLocalViewedReviews that drops every locally generated event
\* and the COMMENTED ones with them
cleanupLocalViewedReviewsGreedy(stats) ==
    DropEmptyDays(
        [d \in DOMAIN stats |->
            Refiltered(stats[d],
                SelectSeq(stats[d].reviews,
                    LAMBDA review : review.reviewState \notin {"VIEWED", "COMMENTED"}))])

\* cleanupLocalViewedReviews: the value of 'reviewStats' after the call
cleanupLocalViewedReviews(stats) ==
    DropEmptyDays(
        [d \in DOMAIN stats |->
            Refiltered(stats[d],
                SelectSeq(stats[d].reviews,
                    LAMBDA review : review.reviewState # "VIEWED"))])

RECURSIVE SumOver(_, _)
SumOver(f, S) ==
    IF S = {} THEN 0
    ELSE LET x == CHOOSE y \in S : TRUE IN f[x] + SumOver(f, S \ {x})

\* number of events stored in the map
Stored(stats) == SumOver([d \in DOMAIN stats |-> Len(stats[d].reviews)], DOMAIN stats)

----------------------------------------------------------------------------
(* The remote fetcher: what the host and the remote answer during one call *)

NoError == "none"
NotAuthenticated == "Not authenticated with GitHub"
AuthExpired == "GitHub authentication expired. Please re-authenticate."
InvalidToken == "Invalid GitHub token"
NoAuthAvailable == "No GitHub authentication available"
SessionRejected == "getSession rejected"
HttpError(status) == IF status = 401 THEN "http 401" ELSE "http 500"

Statuses == {200, 401, 500}

\* the answers authenticate() can get: the first getSession (a session, none,
\* or a rejection), the check of the session's token, the token of the
\* settings (none, accepted, refused), the second getSession
AuthEnvs ==
    [s1 : {"session", "none", "throw"}, v1 : BOOLEAN,
     token : {"none", "good", "bad"}, s2 : {"session", "none", "throw"}]

AuthGranted == [s1 |-> "session", v1 |-> TRUE, token |-> "none", s2 |-> "session"]

\* authenticate() that returns when it has found no credential
authenticateSilent(octo, a) ==
    IF a.s1 = "session" /\ a.v1
    THEN [octokit |-> "client", error |-> NoError]
    ELSE LET afterTry == IF a.s1 = "session" THEN "client" ELSE octo
         IN IF a.token # "none"
            THEN IF a.token = "good"
                 THEN [octokit |-> "client", error |-> NoError]
                 ELSE [octokit |-> "client", error |-> InvalidToken]
            ELSE IF a.s2 = "session"
                 THEN [octokit |-> "client", error |-> NoError]
                 ELSE [octokit |-> afterTry, error |-> NoError]

\* authenticate(): the client it leaves in this.octokit and the error it throws
authenticate(octo, a) ==
    IF a.s1 = "session" /\ a.v1
    THEN [octokit |-> "client", error |-> NoError]
    ELSE LET afterTry == IF a.s1 = "session" THEN "client" ELSE octo
         IN IF a.token # "none"
            THEN IF a.token = "good"
                 THEN [octokit |-> "client", error |-> NoError]
                 ELSE [octokit |-> "client", error |-> InvalidToken]
            ELSE IF a.s2 = "session"
                 THEN [octokit |-> "client", error |-> NoError]
                 ELSE IF a.s2 = "none"
                      THEN [octokit |-> afterTry, error |-> NoAuthAvailable]
                      ELSE [octokit |-> afterTry, error |-> SessionRejected]

\* the review lists a pull request can have on the remote
ReviewLists == UNION { [1..n -> ReviewPool] : n \in 0..MaxReviews }

\* one item of the reviewed-by search with the answer of pulls.listReviews
\* for it (ok = FALSE: the request fails)
CompletedItems ==
    { [pr |-> p, ok |-> TRUE, reviews |-> l] : p \in PRs, l \in ReviewLists }
    \cup { [pr |-> p, ok |-> FALSE, reviews |-> <<>>] : p \in PRs }

DistinctPRs(w) == \A i, j \in 1..Len(w) : i # j => w[i].pr # w[j].pr

CompletedWorlds ==
    { w \in UNION { [1..n -> CompletedItems] : n \in 0..MaxItems } : DistinctPRs(w) }

\* the answers one getCompletedReviews call can get
CompletedEnvs ==
    { [auth |-> a, user |-> 200, search |-> 200, items |-> <<>>] : a \in AuthEnvs }
    \cup { [auth |-> AuthGranted, user |-> u, search |-> s, items |-> <<>>] :
             u \in Statuses, s \in Statuses }
    \cup { [auth |-> AuthGranted, user |-> 200, search |-> 200, items |-> w] :
             w \in CompletedWorlds }

\* the ReviewEvent pushed for one review of one search item
ReviewEventOf(pr, review) ==
    [prId |-> pr.id, prNumber |-> pr.number, repository |-> pr.repository,
     reviewedAt |-> review.submitted_at, reviewState |-> review.state]

\* the events of one item without the test on submitted_at
UserReviewEventsWithPending(item, login) ==
    LET userReviews == SelectSeq(item.reviews, LAMBDA review : review.user = login)
    IN [i \in 1..Len(userReviews) |-> ReviewEventOf(item.pr, userReviews[i])]

\* the events of one item: the user's reviews that have a submitted_at
UserReviewEvents(item, login) ==
    LET userReviews == SelectSeq(item.reviews, LAMBDA review : review.user = login)
        submitted == SelectSeq(userReviews, LAMBDA review : review.submitted_at # NoTime)
    IN [i \in 1..Len(submitted) |-> ReviewEventOf(item.pr, submitted[i])]

RECURSIVE completedLoopNoSkip(_, _)
\* the loop of getCompletedReviews without the test on the author
completedLoopNoSkip(items, login) ==
    IF items = <<>> THEN [reviews |-> <<>>, requested |-> <<>>]
    ELSE LET item == Head(items)
             rest == completedLoopNoSkip(Tail(items), login)
         IN IF ~item.ok
            THEN [reviews |-> rest.reviews,
                  requested |-> <<item.pr.id>> \o rest.requested]
            ELSE [reviews |-> UserReviewEvents(item, login) \o rest.reviews,
                  requested |-> <<item.pr.id>> \o rest.requested]

RECURSIVE completedLoopAbort(_, _)
\* the loop of getCompletedReviews with the try around the loop: the first
\* failure of pulls.listReviews ends it
completedLoopAbort(items, login) ==
    IF items = <<>> THEN [reviews |-> <<>>, requested |-> <<>>]
    ELSE LET item == Head(items)
             rest == completedLoopAbort(Tail(items), login)
         IN IF item.pr.author = login
            THEN rest
            ELSE IF ~item.ok
                 THEN [reviews |-> <<>>, requested |-> <<item.pr.id>>]
                 ELSE [reviews |-> UserReviewEvents(item, login) \o rest.reviews,
                       requested |-> <<item.pr.id>> \o rest.requested]

RECURSIVE completedLoop(_, _)
\* the loop of getCompletedReviews over data.items: the events pushed and
\* the pull requests whose review list was requested, in order
completedLoop(items, login) ==
    IF items = <<>> THEN [reviews |-> <<>>, requested |-> <<>>]
    ELSE LET item == Head(items)
             rest == completedLoop(Tail(items), login)
         IN IF item.pr.author = login
            THEN rest
            ELSE IF ~item.ok
                 THEN [reviews |-> rest.reviews,
                       requested |-> <<item.pr.id>> \o rest.requested]
                 ELSE [reviews |-> UserReviewEvents(item, login) \o rest.reviews,
                       requested |-> <<item.pr.id>> \o rest.requested]

\* the requests of a call before its items: the user lookup and the search
UserLookup == <<"users.getAuthenticated">>
UserLookupAndSearch == <<"users.getAuthenticated", "search.issuesAndPullRequests">>

\* the outcome of a call that throws after the requests 'asked'
Thrown(octo, error, asked) ==
    [octokit |-> octo, error |-> error, reviews |-> <<>>, requested |-> <<>>,
     asked |-> asked]

\* the catch of getCompletedReviews: the error is logged and rethrown
CaughtCompleted(octo, status, asked) ==
    Thrown(octo, HttpError(status), asked)

\* getCompletedReviews: the client left in this.octokit, the error thrown
\* (NoError: it returns), the events returned, the review lists requested,
\* and the requests made before the loop
getCompletedReviews(octo, env) ==
    LET auth == IF octo = "null" THEN authenticate(octo, env.auth)
                ELSE [octokit |-> octo, error |-> NoError]
    IN IF auth.error # NoError THEN Thrown(auth.octokit, auth.error, <<>>)
       ELSE IF auth.octokit = "null" THEN Thrown("null", NotAuthenticated, <<>>)
       ELSE IF env.user # 200
            THEN CaughtCompleted(auth.octokit, env.user, UserLookup)
       ELSE IF env.search # 200
            THEN CaughtCompleted(auth.octokit, env.search, UserLookupAndSearch)
       ELSE LET loop == completedLoop(env.items, Me)
            IN [octokit |-> auth.octokit, error |-> NoError,
                reviews |-> loop.reviews, requested |-> loop.requested,
                asked |-> UserLookupAndSearch]

----------------------------------------------------------------------------
(* The history store: handlers in flight *)

\* what a completed getCompletedReviews call hands to syncReviewHistory
CompletedOutcomesNull ==
    { [octokit |-> r.octokit, error |-> r.error, reviews |-> r.reviews] :
        r \in { getCompletedReviews("null", e) : e \in CompletedEnvs } }

CompletedOutcomesClient ==
    { [octokit |-> r.octokit, error |-> r.error, reviews |-> r.reviews] :
        r \in { getCompletedReviews("client", e) : e \in CompletedEnvs } }

CompletedOutcomes(octo) ==
    IF octo = "null" THEN CompletedOutcomesNull ELSE CompletedOutcomesClient

\* the slots for syncReviewHistory and clearAndResync calls in flight; the
\* calls of the other store methods interleave with the steps of such a call
Handlers == {"h1"}

\* a slot: where its call stands (pc), which method it is (op), the reviews
\* it has fetched and the index of the next one to record (fetched, i),
\* whether no other store call has run since it started (clean), how many
\* of its recordReview calls have written the map (added), the number the
\* last call of the slot returned (returned, -1: none so far or it threw)
\* and the error that call threw (thrown); an idle slot keeps the op of its
\* last call
Idle == [pc |-> "idle", op |-> "none", fetched |-> <<>>, i |-> 1, clean |-> TRUE,
         added |-> 0, returned |-> -1, thrown |-> NoError]

\* a catch block that replaces the error by one of its own
syncRethrowWrapped(error) == "Failed to sync review history"

\* the catch block of syncReviewHistory: it logs the error and throws it again
syncRethrow(error) == error

\* a syncReviewHistory that returns the number of events it has inserted
syncReturnValueInserted(reviews, added) == added

\* 'return reviews.length' of syncReviewHistory, handed on by clearAndResync
syncReturnValue(reviews, added) == Len(reviews)

\* lastOp after an operation: its name when it has changed the map
LastOp(op, stats) == IF stats # reviewStats THEN op ELSE lastOp

\* no clearAndResync has just run alone
NoResync == [valid |-> FALSE, repeated |-> FALSE, fetched |-> <<>>,
             stats |-> EmptyStats]

\* events a handler has fetched and not yet handed to recordReview
Waiting(h) ==
    IF tasks[h].pc = "record" THEN Len(tasks[h].fetched) - tasks[h].i + 1 ELSE 0

Load ==
    Stored(reviewStats) + SumOver([h \in DOMAIN tasks |-> Waiting(h)], DOMAIN tasks)

\* the other calls in flight have seen a store operation of someone else
Disturbed(actor) ==
    [h \in DOMAIN tasks |->
        IF h # actor /\ tasks[h].pc # "idle"
        THEN [tasks[h] EXCEPT !.clean = FALSE]
        ELSE tasks[h]]

\* syncReviewHistory(90) is called: it computes 'since' and awaits the fetch
syncReviewHistoryCall(h) ==
    /\ tasks[h].pc = "idle"
    /\ tasks' = [tasks EXCEPT ![h] =
                    [pc |-> "fetch", op |-> "syncReviewHistory",
                     fetched |-> <<>>, i |-> 1, clean |-> TRUE,
                     added |-> 0, returned |-> -1, thrown |-> NoError]]
    /\ UNCHANGED <<reviewStats, octokit, lastOp, prevResync>>
    /\ UNCHANGED <<fetchVars, query, extVars>>

\* clearAndResync is called: it writes {} and awaits syncReviewHistory(90)
clearAndResyncCall(h) ==
    /\ tasks[h].pc = "idle"
    /\ reviewStats' = clearedStats(reviewStats)
    /\ lastOp' = LastOp("clearAndResync", clearedStats(reviewStats))
    /\ tasks' = [Disturbed(h) EXCEPT ![h] =
                    [pc |-> "fetch", op |-> "clearAndResync",
                     fetched |-> <<>>, i |-> 1, clean |-> TRUE,
                     added |-> 0, returned |-> -1, thrown |-> NoError]]
    /\ UNCHANGED <<octokit, prevResync>>
    /\ UNCHANGED <<fetchVars, query, extVars>>

\* the awaited getCompletedReviews settles with one of the outcomes 'outs':
\* on an error syncReviewHistory (and clearAndResync) rethrow it, otherwise
\* the loop over the reviews starts
syncFetchAnswered(h, outs) ==
    /\ tasks[h].pc = "fetch"
    /\ \E out \in outs :
        /\ octokit' = out.octokit
        /\ IF out.error # NoError
           THEN /\ tasks' = [tasks EXCEPT ![h] =
                                [Idle EXCEPT !.op = tasks[h].op,
                                             !.clean = tasks[h].clean,
                                             !.thrown = syncRethrow(out.error)]]
                /\ UNCHANGED lastOp
                /\ prevResync' = IF tasks[h].op = "clearAndResync"
                                 THEN NoResync ELSE prevResync
           ELSE /\ Load + Len(out.reviews) <= MaxStored
                /\ tasks' = [tasks EXCEPT ![h].pc = "record",
                                          ![h].fetched = out.reviews,
                                          ![h].i = 1]
                /\ UNCHANGED <<lastOp, prevResync>>
    /\ UNCHANGED <<reviewStats>>
    /\ UNCHANGED <<fetchVars, query, extVars>>

syncFetchSettles(h) == syncFetchAnswered(h, CompletedOutcomes(octokit))

\* one round of 'for (const review of reviews) await this.recordReview(review)'
syncRecordReview(h) ==
    /\ tasks[h].pc = "record"
    /\ tasks[h].i <= Len(tasks[h].fetched)
    /\ LET review == tasks[h].fetched[tasks[h].i]
           stats == recordReview(reviewStats, review)
       IN /\ reviewStats' = stats
          /\ lastOp' = LastOp("recordReview", stats)
    /\ tasks' = [Disturbed(h) EXCEPT
                    ![h].i = tasks[h].i + 1,
                    ![h].added = IF reviewStats' # reviewStats
                                 THEN tasks[h].added + 1 ELSE tasks[h].added]
    /\ prevResync' = IF tasks[h].op = "clearAndResync" THEN prevResync ELSE NoResync
    /\ UNCHANGED <<octokit>>
    /\ UNCHANGED <<fetchVars, query, extVars>>

\* 'return reviews.length' (and 'return count' of clearAndResync)
syncReturn(h) ==
    /\ tasks[h].pc = "record"
    /\ tasks[h].i > Len(tasks[h].fetched)
    /\ prevResync' = IF tasks[h].op = "clearAndResync" /\ tasks[h].clean
                     THEN [valid |-> TRUE,
                           repeated |-> prevResync.valid
                                        /\ prevResync.fetched = tasks[h].fetched,
                           fetched |-> tasks[h].fetched,
                           stats |-> reviewStats]
                     ELSE NoResync
    /\ tasks' = [tasks EXCEPT ![h] =
                    [Idle EXCEPT !.op = tasks[h].op,
                                 !.clean = tasks[h].clean,
                                 !.added = tasks[h].added,
                                 !.returned = syncReturnValue(tasks[h].fetched,
                                                              tasks[h].added)]]
    /\ UNCHANGED <<reviewStats, octokit, lastOp>>
    /\ UNCHANGED <<fetchVars, query, extVars>>

\* the event markPRAsReviewed builds for a pull request clicked at instant t
ViewedEvent(pr, t) ==
    [prId |-> pr.id, prNumber |-> pr.number, repository |-> pr.repository,
     reviewedAt |-> toISOString(t), reviewState |-> "VIEWED"]

\* markPRAsReviewed without the test on the author of the pull request
markPRAsReviewedAnyAuthor(pr, t, lookup) ==
    /\ Load < MaxStored
    /\ IF octokit = "null" \/ lookup # 200
       THEN UNCHANGED <<reviewStats, lastOp, tasks, prevResync>>
       ELSE LET review == ViewedEvent(pr, t)
                stats == recordReview(reviewStats, review)
            IN /\ reviewStats' = stats
               /\ lastOp' = LastOp("markPRAsReviewed", stats)
               /\ tasks' = Disturbed("none")
               /\ prevResync' = NoResync
    /\ UNCHANGED <<octokit>>
    /\ UNCHANGED <<fetchVars, query, extVars>>

\* markPRAsReviewed(pr): the user lookup (this.octokit! throws when there is
\* no client), the test on the author, then recordReview of a VIEWED event
\* pr is clicked at instant t and the user lookup answers 'lookup'
markPRAsReviewed(pr, t, lookup) ==
    /\ Load < MaxStored
    /\ IF octokit = "null" \/ lookup # 200 \/ pr.author = Me
       THEN UNCHANGED <<reviewStats, lastOp, tasks, prevResync>>
       ELSE LET review == ViewedEvent(pr, t)
                stats == recordReview(reviewStats, review)
            IN /\ reviewStats' = stats
               /\ lastOp' = LastOp("markPRAsReviewed", stats)
               /\ tasks' = Disturbed("none")
               /\ prevResync' = NoResync
    /\ UNCHANGED <<octokit>>
    /\ UNCHANGED <<fetchVars, query, extVars>>

\* removeReviewByPR(prNumber, repository)
removeReviewByPRCall ==
    \E pr \in PRs, other \in PRs :
        LET stats == removeReviewByPR(reviewStats, pr.number, other.repository)
        IN /\ reviewStats' = stats
           /\ lastOp' = LastOp("removeReviewByPR", stats)
           /\ tasks' = Disturbed("none")
           /\ prevResync' = NoResync
           /\ UNCHANGED <<octokit>>
           /\ UNCHANGED <<fetchVars, query, extVars>>

\* cleanupLocalViewedReviews()
cleanupLocalViewedReviewsCall ==
    LET stats == cleanupLocalViewedReviews(reviewStats)
    IN /\ reviewStats' = stats
       /\ lastOp' = LastOp("cleanupLocalViewedReviews", stats)
       /\ tasks' = Disturbed("none")
       /\ prevResync' = NoResync
       /\ UNCHANGED <<octokit>>
       /\ UNCHANGED <<fetchVars, query, extVars>>

\* lastCall: the method, the client before the call (before), what the host
\* and the remote answered (env), the error thrown, the value returned, the
\* review lists requested and the requests made before the items (asked)
NoCall == [op |-> "none", before |-> "null", env |-> <<>>, error |-> NoError,
           result |-> <<>>, requested |-> <<>>, asked |-> <<>>]

\* the local time zone of the host: the offset from UTC in hours, and the
\* instant from which the offset is changed by 'shift' (daylight saving)
UTCZone == [base |-> 0, dstAt |-> 0, shift |-> 0]
TimeZones ==
    { UTCZone,
      [base |-> -5, dstAt |-> 0, shift |-> 0],
      [base |-> -5, dstAt |-> HoursPerDay + 7, shift |-> 1],
      [base |-> -4, dstAt |-> HoursPerDay + 6, shift |-> -1] }

NoQuery == [asked |-> FALSE, startDate |-> 0, endDate |-> 0, tz |-> UTCZone,
            stats |-> <<>>, total |-> -1]

\* the settings with their defaults (package defaults of config.get)
DefaultConfig == [autoShowOnStartup |-> TRUE, onlyShowWhenPRsExist |-> FALSE,
                  refreshIntervalOn |-> TRUE, showNotifications |-> TRUE]

\* no checkForNewReviews call so far
NoCheck == [called |-> FALSE, failed |-> FALSE, current |-> 0, previous |-> 0,
            returned |-> 0]

\* globalState.get('lastSyncDate') when the key was never written (undefined)
NoDate == -1

\* 'lastSyncDate !== today': activate() sets the startup sync timer
startupSyncScheduled(last, day) == last # day

\* the extension before any timer or command has run: no panel, the timers
\* that activate() sets under the settings 'c' at instant 'now' when the
\* stored lastSyncDate is 'last'
ExtensionActivatedAt(c, last, now) ==
    /\ revealed = FALSE
    /\ lastCheck = NoCheck
    /\ lastSyncDate = last
    /\ today = SplitT0(toISOString(now))
    /\ startupTimer = IF startupSyncScheduled(last, SplitT0(toISOString(now)))
                      THEN "armed" ELSE "off"
    /\ currentPanel = FALSE
    /\ webviews = 0
    /\ hasShownThisSession = FALSE
    /\ config = c
    /\ autoShowTimer = IF c.autoShowOnStartup THEN "armed" ELSE "off"
    /\ refreshInterval = IF c.refreshIntervalOn THEN "initial" ELSE "off"
    /\ refreshTick = "idle"
    /\ command = "idle"
    /\ previousReviewCount = 0
    /\ dismissed = FALSE
    /\ openedBy = "none"

\* the first activation of the extension
ExtensionActivated(c) == ExtensionActivatedAt(c, NoDate, 0)

Init ==
    /\ reviewStats = EmptyStats
    /\ octokit = "null"
    /\ tasks = [h \in Handlers |-> Idle]
    /\ lastOp = "none"
    /\ prevResync = NoResync
    /\ cachedPRs = <<>>
    /\ lastReviewCount = 0
    /\ lastCall = NoCall
    /\ initDone = FALSE
    /\ query = NoQuery
    /\ ExtensionActivated(DefaultConfig)

Next ==
    \/ \E h \in Handlers : syncReviewHistoryCall(h)
    \/ \E h \in Handlers : clearAndResyncCall(h)
    \/ \E h \in Handlers : syncFetchSettles(h)
    \/ \E h \in Handlers : syncRecordReview(h)
    \/ \E h \in Handlers : syncReturn(h)
    \/ \E pr \in PRs, t \in ClickTimes, lookup \in Statuses :
            markPRAsReviewed(pr, t, lookup)
    \/ removeReviewByPRCall
    \/ cleanupLocalViewedReviewsCall

Spec == Init /\ [][Next]_vars

----------------------------------------------------------------------------
(* The remote fetcher: getAssignedPRReviews and getCompletedReviews calls *)

\* what pulls.get answers for a pull request whose draft flag is 'draft'
PrDetails(draft) ==
    [draft |-> draft, requested_reviewers |-> <<Me>>, review_comments |-> 2,
     additions |-> 7, deletions |-> 3]

\* one item of the review-requested search with the answer of pulls.get for
\* it: ok = FALSE when the request fails, draft is the flag on the remote
AssignedItems == [pr : PRs, ok : BOOLEAN, draft : BOOLEAN]

AssignedWorlds ==
    { w \in UNION { [1..n -> AssignedItems] : n \in 0..MaxItems } : DistinctPRs(w) }

\* the answers one getAssignedPRReviews call can get
AssignedEnvs ==
    { [auth |-> a, user |-> 200, search |-> 200, items |-> <<>>] : a \in AuthEnvs }
    \cup { [auth |-> AuthGranted, user |-> u, search |-> s, items |-> <<>>] :
             u \in Statuses, s \in Statuses }
    \cup { [auth |-> AuthGranted, user |-> 200, search |-> 200, items |-> w] :
             w \in AssignedWorlds }

\* the PullRequest built by the mapper of getAssignedPRReviews: with the
\* details when pulls.get answers, from the search item alone when it fails
PullRequestOf(item) ==
    IF item.ok
    THEN LET prDetails == PrDetails(item.draft)
         IN [id |-> item.pr.id, number |-> item.pr.number,
             repository |-> item.pr.repository, author |-> item.pr.author,
             draft |-> prDetails.draft,
             requested_reviewers |-> prDetails.requested_reviewers,
             review_comments |-> prDetails.review_comments,
             additions |-> prDetails.additions, deletions |-> prDetails.deletions]
    ELSE [id |-> item.pr.id, number |-> item.pr.number,
          repository |-> item.pr.repository, author |-> item.pr.author,
          draft |-> FALSE, requested_reviewers |-> <<>>, review_comments |-> 0,
          additions |-> 0, deletions |-> 0]

\* the filter of getAssignedPRReviews left out
filterDraftsNone(prs) == prs

\* prs.filter(pr => !pr.draft)
filterDrafts(prs) == SelectSeq(prs, LAMBDA pr : ~pr.draft)

\* the outcome of a getAssignedPRReviews call that throws after the
\* requests 'asked'
ThrownAssigned(octo, error, asked) ==
    [octokit |-> octo, error |-> error, prs |-> <<>>, asked |-> asked]

\* a catch that reports the expired authentication and keeps the client
CaughtAssignedKeepsClient(octo, status, asked) ==
    IF status = 401 THEN ThrownAssigned(octo, AuthExpired, asked)
    ELSE ThrownAssigned(octo, HttpError(status), asked)

\* the catch of getAssignedPRReviews: a 401 clears the client
CaughtAssigned(octo, status, asked) ==
    IF status = 401 THEN ThrownAssigned("null", AuthExpired, asked)
    ELSE ThrownAssigned(octo, HttpError(status), asked)

\* getAssignedPRReviews whose mapper lets the failure of pulls.get reach
\* the catch of the call
getAssignedPRReviewsFailFast(octo, env) ==
    LET auth == IF octo = "null" THEN authenticate(octo, env.auth)
                ELSE [octokit |-> octo, error |-> NoError]
    IN IF auth.error # NoError THEN ThrownAssigned(auth.octokit, auth.error, <<>>)
       ELSE IF auth.octokit = "null"
            THEN ThrownAssigned("null", NotAuthenticated, <<>>)
       ELSE IF env.user # 200
            THEN CaughtAssigned(auth.octokit, env.user, UserLookup)
       ELSE IF env.search # 200
            THEN CaughtAssigned(auth.octokit, env.search, UserLookupAndSearch)
       ELSE IF \E i \in 1..Len(env.items) : ~env.items[i].ok
            THEN CaughtAssigned(auth.octokit, 500, UserLookupAndSearch)
       ELSE LET prs == [i \in 1..Len(env.items) |-> PullRequestOf(env.items[i])]
            IN [octokit |-> auth.octokit, error |-> NoError,
                prs |-> filterDrafts(prs), asked |-> UserLookupAndSearch]

\* getAssignedPRReviews: the client left in this.octokit, the error thrown
\* (NoError: it returns), the list returned and cached, and the requests
\* made before the items
getAssignedPRReviews(octo, env) ==
    LET auth == IF octo = "null" THEN authenticate(octo, env.auth)
                ELSE [octokit |-> octo, error |-> NoError]
    IN IF auth.error # NoError THEN ThrownAssigned(auth.octokit, auth.error, <<>>)
       ELSE IF auth.octokit = "null"
            THEN ThrownAssigned("null", NotAuthenticated, <<>>)
       ELSE IF env.user # 200
            THEN CaughtAssigned(auth.octokit, env.user, UserLookup)
       ELSE IF env.search # 200
            THEN CaughtAssigned(auth.octokit, env.search, UserLookupAndSearch)
       ELSE LET prs == [i \in 1..Len(env.items) |-> PullRequestOf(env.items[i])]
            IN [octokit |-> auth.octokit, error |-> NoError,
                prs |-> filterDrafts(prs), asked |-> UserLookupAndSearch]

\* the constructor's initialize(): authenticate(), errors logged
initialize ==
    /\ ~initDone
    /\ initDone' = TRUE
    /\ \E a \in AuthEnvs : octokit' = authenticate(octokit, a).octokit
    /\ UNCHANGED <<cachedPRs, lastReviewCount, lastCall>>
    /\ UNCHANGED <<storeVars, query, extVars>>

\* a caller awaits getAssignedPRReviews(); the host and the remote answer
\* with one of 'envs'
getAssignedPRReviewsAnswered(envs) ==
    /\ lastCall.op = "none"
    /\ \E env \in envs :
        LET r == getAssignedPRReviews(octokit, env)
        IN /\ octokit' = r.octokit
           /\ cachedPRs' = IF r.error = NoError THEN r.prs ELSE cachedPRs
           /\ lastReviewCount' = IF r.error = NoError THEN Len(r.prs)
                                 ELSE lastReviewCount
           /\ lastCall' = [op |-> "getAssignedPRReviews", before |-> octokit,
                           env |-> env, error |-> r.error, result |-> r.prs,
                           requested |-> <<>>, asked |-> r.asked]
    /\ UNCHANGED initDone
    /\ UNCHANGED <<storeVars, query, extVars>>

getAssignedPRReviewsCall == getAssignedPRReviewsAnswered(AssignedEnvs)

\* a caller reads getCachedPRs()
getCachedPRsCall ==
    /\ lastCall.op = "none"
    /\ lastCall' = [op |-> "getCachedPRs", before |-> octokit, env |-> <<>>,
                    error |-> NoError, result |-> cachedPRs, requested |-> <<>>,
                    asked |-> <<>>]
    /\ UNCHANGED <<octokit, cachedPRs, lastReviewCount, initDone>>
    /\ UNCHANGED <<storeVars, query, extVars>>

\* a caller awaits getCompletedReviews(since); the host and the remote
\* answer with one of 'envs'
getCompletedReviewsAnswered(envs) ==
    /\ lastCall.op = "none"
    /\ \E env \in envs :
        LET r == getCompletedReviews(octokit, env)
        IN /\ octokit' = r.octokit
           /\ lastCall' = [op |-> "getCompletedReviews", before |-> octokit,
                           env |-> env, error |-> r.error, result |-> r.reviews,
                           requested |-> r.requested, asked |-> r.asked]
    /\ UNCHANGED <<cachedPRs, lastReviewCount, initDone>>
    /\ UNCHANGED <<storeVars, query, extVars>>

getCompletedReviewsCall == getCompletedReviewsAnswered(CompletedEnvs)

\* the difference of the two counts, as it comes
newReviewsSigned(currentCount, previousCount) == currentCount - previousCount

\* Math.max(0, currentCount - previousCount)
newReviews(currentCount, previousCount) ==
    IF currentCount - previousCount > 0 THEN currentCount - previousCount ELSE 0

\* a caller awaits checkForNewReviews(): the fetch, then the read and the
\* update of 'previousReviewCount' and the returned number of new reviews;
\* an error of the fetch leaves the stored count alone
checkForNewReviewsCall ==
    /\ lastCall.op = "none"
    /\ \E env \in AssignedEnvs :
        LET r == getAssignedPRReviews(octokit, env)
            currentCount == Len(r.prs)
            previousCount == previousReviewCount
        IN /\ octokit' = r.octokit
           /\ cachedPRs' = IF r.error = NoError THEN r.prs ELSE cachedPRs
           /\ lastReviewCount' = IF r.error = NoError THEN Len(r.prs)
                                 ELSE lastReviewCount
           /\ lastCall' = [op |-> "checkForNewReviews", before |-> octokit,
                           env |-> env, error |-> r.error, result |-> r.prs,
                           requested |-> <<>>, asked |-> r.asked]
           /\ IF r.error = NoError
              THEN /\ previousReviewCount' = currentCount
                   /\ lastCheck' = [called |-> TRUE, failed |-> FALSE,
                                    current |-> currentCount,
                                    previous |-> previousCount,
                                    returned |-> newReviews(currentCount,
                                                            previousCount)]
              ELSE /\ UNCHANGED previousReviewCount
                   /\ lastCheck' = [called |-> TRUE, failed |-> TRUE,
                                    current |-> 0,
                                    previous |-> previousCount,
                                    returned |-> 0]
    /\ UNCHANGED initDone
    /\ UNCHANGED <<storeVars, query, panelVars, startupVars>>

\* the caller has used what the call returned
callerContinues ==
    /\ lastCall.op # "none"
    /\ lastCall' = NoCall
    /\ UNCHANGED <<octokit, cachedPRs, lastReviewCount, initDone>>
    /\ UNCHANGED <<storeVars, query, extVars>>

NextAssigned ==
    \/ initialize
    \/ getAssignedPRReviewsCall
    \/ getCachedPRsCall
    \/ callerContinues

SpecAssigned == Init /\ [][NextAssigned]_vars

NextCompleted ==
    \/ initialize
    \/ getCompletedReviewsCall
    \/ callerContinues

SpecCompleted == Init /\ [][NextCompleted]_vars

\* the answers of the host and the remote when the searches find nothing
NoItemEnvs == { e \in AssignedEnvs \cup CompletedEnvs : e.items = <<>> }

\* the two fetching methods called in any order, the searches finding nothing
NextAuth ==
    \/ initialize
    \/ getAssignedPRReviewsAnswered(NoItemEnvs)
    \/ getCompletedReviewsAnswered(NoItemEnvs)
    \/ callerContinues

SpecAuth == Init /\ [][NextAuth]_vars

\* checkForNewReviews called again and again
NextCheck ==
    \/ initialize
    \/ checkForNewReviewsCall
    \/ callerContinues

SpecCheck == Init /\ [][NextCheck]_vars

----------------------------------------------------------------------------
(* The range queries *)

\* the offset of local time from UTC at instant t
Offset(tz, t) == tz.base + (IF t >= tz.dstAt THEN tz.shift ELSE 0)

\* LocalTime(t) of ECMAScript: the wall clock at instant t
LocalTime(tz, t) == t + Offset(tz, t)

\* UTC(w) of ECMAScript: the instant of wall clock w; the earlier instant
\* when w occurs twice, the offset before the change when w is skipped
UTCOf(tz, w) ==
    LET before == w - tz.base
        after == w - tz.base - tz.shift
        possible == { x \in {before, after} : LocalTime(tz, x) = w }
    IN IF possible = {} THEN before
       ELSE CHOOSE x \in possible : \A y \in possible : x <= y

\* current.setDate(current.getDate() + 1): the same wall clock time on the
\* next local day
setDateNext(tz, current) == UTCOf(tz, LocalTime(tz, current) + HoursPerDay)

RECURSIVE rangeLoop(_, _, _, _)
\* while (current <= endDate) { push {date, count}; next day }
rangeLoop(stats, current, endDate, tz) ==
    IF current <= endDate
    THEN LET dateStr == SplitT0(toISOString(current))
             count == IF dateStr \in DOMAIN stats THEN stats[dateStr].count ELSE 0
         IN <<[date |-> dateStr, count |-> count]>>
            \o rangeLoop(stats, setDateNext(tz, current), endDate, tz)
    ELSE <<>>

\* getStatsForDateRange(startDate, endDate) on the host's time zone
getStatsForDateRange(stats, startDate, endDate, tz) ==
    rangeLoop(stats, startDate, endDate, tz)

RECURSIVE reduceSum(_)
\* stats.reduce((sum, day) => sum + day.count, 0)
reduceSum(days) ==
    IF days = <<>> THEN 0
    ELSE reduceSum(SubSeq(days, 1, Len(days) - 1)) + days[Len(days)].count

\* a total taken from the map itself: the counts of the stored days
\* between the date of startDate and the date of endDate
getTotalReviewCountFromMap(stats, startDate, endDate, tz) ==
    LET first == SplitT0(toISOString(startDate))
        last == SplitT0(toISOString(endDate))
        days == { d \in DOMAIN stats : first <= d /\ d <= last }
    IN SumOver([d \in days |-> stats[d].count], days)

\* getTotalReviewCount(startDate, endDate)
getTotalReviewCount(stats, startDate, endDate, tz) ==
    reduceSum(getStatsForDateRange(stats, startDate, endDate, tz))

\* the instants a range query is asked about
Instants == 0..(RangeDays * HoursPerDay - 1)

\* the events recorded before the queries
RecordedEvents ==
    { ViewedEvent(PR1, 11), ViewedEvent(PR2, 11), ViewedEvent(PR1, 35) }

RECURSIVE recordAll(_, _)
\* recordReview of each event of a list in turn
recordAll(stats, reviews) ==
    IF reviews = <<>> THEN stats
    ELSE recordAll(recordReview(stats, Head(reviews)), Tail(reviews))

\* the maps the store holds after at most MaxRecorded recordReview calls
RecordedMaps ==
    { recordAll(EmptyStats, l) :
        l \in UNION { [1..n -> RecordedEvents] : n \in 0..MaxRecorded } }

InitRange ==
    /\ reviewStats \in RecordedMaps
    /\ octokit = "null"
    /\ tasks = [h \in Handlers |-> Idle]
    /\ lastOp = "none"
    /\ prevResync = NoResync
    /\ cachedPRs = <<>>
    /\ lastReviewCount = 0
    /\ lastCall = NoCall
    /\ initDone = FALSE
    /\ query = NoQuery
    /\ ExtensionActivated(DefaultConfig)

\* a caller asks getStatsForDateRange(startDate, endDate)
getStatsForDateRangeCall ==
    /\ ~query.asked
    /\ \E startDate \in Instants, endDate \in Instants, tz \in TimeZones :
        /\ startDate <= endDate
        /\ query' = [asked |-> TRUE, startDate |-> startDate, endDate |-> endDate,
                     tz |-> tz,
                     stats |-> getStatsForDateRange(reviewStats, startDate, endDate, tz),
                     total |-> -1]
    /\ UNCHANGED <<octokit, storeVars, fetchVars, extVars>>

\* the caller asks getTotalReviewCount for the same range
getTotalReviewCountCall ==
    /\ query.asked
    /\ query.total = -1
    /\ query' = [query EXCEPT !.total =
                    getTotalReviewCount(reviewStats, query.startDate,
                                        query.endDate, query.tz)]
    /\ UNCHANGED <<octokit, storeVars, fetchVars, extVars>>

NextRange ==
    \/ getStatsForDateRangeCall
    \/ getTotalReviewCountCall

SpecRange == InitRange /\ [][NextRange]_vars

----------------------------------------------------------------------------
(* The extension: the review panel, the timers and the commands of activate() *)

\* isAuthenticated(): the client it leaves and its answer; 'status' is the
\* answer to its user lookup
isAuthenticated(octo, a, status) ==
    LET auth == IF octo = "null" THEN authenticate(octo, a)
                ELSE [octokit |-> octo, error |-> NoError]
    IN IF auth.error # NoError
       THEN [octokit |-> auth.octokit, result |-> FALSE]
       ELSE [octokit |-> auth.octokit, result |-> status = 200]

\* PRReviewPanel.refresh(): the client it leaves, whether it has fetched the
\* list, and the list (errors are posted to the webview)
refresh(octo, a, status, env) ==
    LET auth == isAuthenticated(octo, a, status)
    IN IF ~auth.result
       THEN [octokit |-> auth.octokit, fetched |-> FALSE, prs |-> <<>>]
       ELSE LET r == getAssignedPRReviews(auth.octokit, env)
            IN [octokit |-> r.octokit, fetched |-> r.error = NoError, prs |-> r.prs]

\* the remote as the extension's timers and commands see it: the searches
\* return PR1 or nothing
PanelAssignedEnvs ==
    { e \in AssignedEnvs : \A i \in 1..Len(e.items) : e.items[i].pr = PR1 }

PanelCompletedEnvs ==
    { e \in CompletedEnvs : \A i \in 1..Len(e.items) : e.items[i].pr = PR1 }

IsAuthOutcomesNull ==
    { isAuthenticated("null", a, s) : a \in AuthEnvs, s \in Statuses }
IsAuthOutcomesClient ==
    { isAuthenticated("client", a, s) : a \in {AuthGranted}, s \in Statuses }
IsAuthOutcomes(octo) ==
    IF octo = "null" THEN IsAuthOutcomesNull ELSE IsAuthOutcomesClient

RefreshOutcomesNull ==
    { refresh("null", a, s, e) : a \in AuthEnvs, s \in Statuses, e \in PanelAssignedEnvs }
RefreshOutcomesClient ==
    { refresh("client", a, s, e) : a \in {AuthGranted}, s \in Statuses,
                                   e \in PanelAssignedEnvs }
RefreshOutcomes(octo) ==
    IF octo = "null" THEN RefreshOutcomesNull ELSE RefreshOutcomesClient

AssignedOutcomesNull ==
    { [octokit |-> r.octokit, fetched |-> r.error = NoError, prs |-> r.prs] :
        r \in { getAssignedPRReviews("null", e) : e \in PanelAssignedEnvs } }
AssignedOutcomesClient ==
    { [octokit |-> r.octokit, fetched |-> r.error = NoError, prs |-> r.prs] :
        r \in { getAssignedPRReviews("client", e) : e \in PanelAssignedEnvs } }
AssignedOutcomes(octo) ==
    IF octo = "null" THEN AssignedOutcomesNull ELSE AssignedOutcomesClient

ResyncOutcomesNull ==
    { [octokit |-> r.octokit, error |-> r.error, reviews |-> r.reviews] :
        r \in { getCompletedReviews("null", e) : e \in PanelCompletedEnvs } }
ResyncOutcomesClient ==
    { [octokit |-> r.octokit, error |-> r.error, reviews |-> r.reviews] :
        r \in { getCompletedReviews("client", e) : e \in PanelCompletedEnvs } }
ResyncOutcomes(octo) ==
    IF octo = "null" THEN ResyncOutcomesNull ELSE ResyncOutcomesClient

\* a fetch followed by the refresh of createOrShow: what the two leave
FetchThenRefresh(r, ro) ==
    [octokit |-> ro.octokit, fetched |-> r.fetched \/ ro.fetched,
     prs |-> IF ro.fetched THEN ro.prs ELSE r.prs]

\* the fields of the service after a fetch or a refresh with outcome 'out'
Fetched(out) ==
    /\ octokit' = out.octokit
    /\ cachedPRs' = IF out.fetched THEN out.prs ELSE cachedPRs
    /\ lastReviewCount' = IF out.fetched THEN Len(out.prs) ELSE lastReviewCount

\* a createOrShow that creates a panel without looking at currentPanel
createOrShowAlways(by, out) ==
    /\ Fetched(out)
    /\ currentPanel' = TRUE
    /\ webviews' = webviews + 1
    /\ openedBy' = by
    /\ revealed' = FALSE

\* PRReviewPanel.createOrShow: the panel that exists is revealed and
\* refreshed, otherwise a panel is created and its constructor refreshes it
createOrShow(by, out) ==
    /\ Fetched(out)
    /\ IF currentPanel
       THEN /\ revealed' = TRUE
            /\ UNCHANGED <<currentPanel, webviews, openedBy>>
       ELSE /\ currentPanel' = TRUE
            /\ webviews' = webviews + 1
            /\ openedBy' = by
            /\ revealed' = FALSE

\* PRReviewPanel.dispose(): currentPanel is cleared and the webview closed
dispose ==
    /\ currentPanel' = FALSE
    /\ webviews' = IF currentPanel THEN webviews - 1 ELSE webviews
    /\ openedBy' = "none"
    /\ revealed' = FALSE

\* the command review-nudge.showReviews
showReviewsCommand ==
    /\ \E out \in RefreshOutcomes(octokit) : createOrShow("user", out)
    /\ UNCHANGED <<hasShownThisSession, config, autoShowTimer, refreshInterval,
                   refreshTick, command, previousReviewCount, lastCheck, dismissed>>
    /\ UNCHANGED <<storeVars, lastCall, initDone, query, startupVars>>

\* the command review-nudge.refresh: refresh of the panel, or createOrShow
\* when there is none
refreshCommand ==
    /\ \E out \in RefreshOutcomes(octokit) :
        IF currentPanel
        THEN Fetched(out) /\ UNCHANGED <<currentPanel, webviews, openedBy, revealed>>
        ELSE createOrShow("user", out)
    /\ UNCHANGED <<hasShownThisSession, config, autoShowTimer, refreshInterval,
                   refreshTick, command, previousReviewCount, lastCheck, dismissed>>
    /\ UNCHANGED <<storeVars, lastCall, initDone, query, startupVars>>

\* the command review-nudge.dismiss
dismissCommand ==
    /\ IF currentPanel
       THEN /\ dispose
            /\ hasShownThisSession' = TRUE
            /\ dismissed' = TRUE
       ELSE UNCHANGED <<currentPanel, webviews, openedBy, revealed, hasShownThisSession,
                        dismissed>>
    /\ UNCHANGED <<config, autoShowTimer, refreshInterval, refreshTick, command,
                   previousReviewCount, lastCheck>>
    /\ UNCHANGED <<octokit, storeVars, fetchVars, query, startupVars>>

\* the user closes the panel's tab: onDidDispose calls dispose()
panelClosed ==
    /\ currentPanel
    /\ dispose
    /\ UNCHANGED <<hasShownThisSession, config, autoShowTimer, refreshInterval,
                   refreshTick, command, previousReviewCount, lastCheck, dismissed>>
    /\ UNCHANGED <<octokit, storeVars, fetchVars, query, startupVars>>

\* the command review-nudge.clearAndResync: the panel is closed, the map is
\* cleared and the sync awaited
clearAndResyncCommand ==
    /\ command = "idle"
    /\ dispose
    /\ reviewStats' = clearedStats(reviewStats)
    /\ lastOp' = LastOp("clearAndResync", clearedStats(reviewStats))
    /\ command' = "resync"
    /\ UNCHANGED <<hasShownThisSession, config, autoShowTimer, refreshInterval,
                   refreshTick, previousReviewCount, lastCheck, dismissed>>
    /\ UNCHANGED <<octokit, tasks, prevResync, fetchVars, query, startupVars>>

\* the sync of the clearAndResync command settles: on success the fetched
\* reviews are recorded and the panel is opened again
clearAndResyncCommandSettles ==
    /\ command = "resync"
    /\ command' = "idle"
    /\ \E r \in ResyncOutcomes(octokit) :
        IF r.error # NoError
        THEN /\ octokit' = r.octokit
             /\ UNCHANGED <<reviewStats, lastOp, cachedPRs, lastReviewCount,
                            currentPanel, webviews, openedBy, revealed>>
        ELSE /\ reviewStats' = recordAll(reviewStats, r.reviews)
             /\ lastOp' = LastOp("recordReview", recordAll(reviewStats, r.reviews))
             /\ \E out \in RefreshOutcomes(r.octokit) : createOrShow("user", out)
    /\ UNCHANGED <<hasShownThisSession, config, autoShowTimer, refreshInterval,
                   refreshTick, previousReviewCount, lastCheck, dismissed>>
    /\ UNCHANGED <<tasks, prevResync, lastCall, initDone, query, startupVars>>

\* the auto-show timer fires, 2 seconds after activate() has set it
autoShowFires ==
    /\ autoShowTimer = "armed"
    /\ IF config.onlyShowWhenPRsExist
       THEN /\ autoShowTimer' = "authCheck"
            /\ UNCHANGED <<octokit, cachedPRs, lastReviewCount, currentPanel,
                           webviews, openedBy, revealed, hasShownThisSession>>
       ELSE /\ \E out \in RefreshOutcomes(octokit) : createOrShow("autoShow", out)
            /\ hasShownThisSession' = TRUE
            /\ autoShowTimer' = "done"
    /\ UNCHANGED <<config, refreshInterval, refreshTick, command,
                   previousReviewCount, lastCheck, dismissed>>
    /\ UNCHANGED <<storeVars, lastCall, initDone, query, startupVars>>

\* the isAuthenticated() of the auto-show callback settles
autoShowAuthSettles ==
    /\ autoShowTimer = "authCheck"
    /\ \E r \in IsAuthOutcomes(octokit) :
        /\ octokit' = r.octokit
        /\ autoShowTimer' = IF r.result THEN "fetch" ELSE "done"
    /\ UNCHANGED <<currentPanel, webviews, openedBy, revealed, hasShownThisSession, config,
                   refreshInterval, refreshTick, command, previousReviewCount, lastCheck,
                   dismissed>>
    /\ UNCHANGED <<storeVars, fetchVars, query, startupVars>>

\* the getAssignedPRReviews() of the auto-show callback settles: with pull
\* requests waiting the panel is shown and a notification offers 'View Details'
autoShowFetchSettles ==
    /\ autoShowTimer = "fetch"
    /\ \E r \in AssignedOutcomes(octokit) :
        IF r.fetched /\ Len(r.prs) > 0
        THEN /\ \E ro \in RefreshOutcomes(r.octokit) :
                    createOrShow("autoShow", FetchThenRefresh(r, ro))
             /\ hasShownThisSession' = TRUE
             /\ autoShowTimer' = "notified"
        ELSE /\ Fetched(r)
             /\ autoShowTimer' = "done"
             /\ UNCHANGED <<currentPanel, webviews, openedBy, revealed, hasShownThisSession>>
    /\ UNCHANGED <<config, refreshInterval, refreshTick, command,
                   previousReviewCount, lastCheck, dismissed>>
    /\ UNCHANGED <<storeVars, lastCall, initDone, query, startupVars>>

\* the user answers the notification of the auto-show callback
autoShowNoteAnswered(viewDetails) ==
    /\ autoShowTimer = "notified"
    /\ autoShowTimer' = "done"
    /\ IF viewDetails /\ ~currentPanel
       THEN \E out \in RefreshOutcomes(octokit) : createOrShow("user", out)
       ELSE UNCHANGED <<octokit, cachedPRs, lastReviewCount, currentPanel,
                        webviews, openedBy, revealed>>
    /\ UNCHANGED <<hasShownThisSession, config, refreshInterval, refreshTick,
                   command, previousReviewCount, lastCheck, dismissed>>
    /\ UNCHANGED <<storeVars, lastCall, initDone, query, startupVars>>

\* the interval timer fires: the panel is refreshed when there is one; the
\* interval that activate() has set goes on to checkForNewReviews
tickFires ==
    /\ refreshInterval # "off"
    /\ refreshTick = "idle"
    /\ IF currentPanel
       THEN \E out \in RefreshOutcomes(octokit) : Fetched(out)
       ELSE UNCHANGED <<octokit, cachedPRs, lastReviewCount>>
    /\ refreshTick' = IF refreshInterval = "initial" /\ config.showNotifications
                      THEN "check" ELSE "idle"
    /\ UNCHANGED <<currentPanel, webviews, openedBy, revealed, hasShownThisSession, config,
                   autoShowTimer, refreshInterval, command, previousReviewCount, lastCheck,
                   dismissed>>
    /\ UNCHANGED <<storeVars, lastCall, initDone, query, startupVars>>

\* checkForNewReviews() of the interval callback settles: with new reviews
\* and no panel a notification offers 'View Reviews'
tickCheckSettles ==
    /\ refreshTick = "check"
    /\ \E r \in AssignedOutcomes(octokit) :
        /\ Fetched(r)
        /\ IF r.fetched
           THEN /\ previousReviewCount' = Len(r.prs)
                /\ lastCheck' = [called |-> TRUE, failed |-> FALSE,
                                 current |-> Len(r.prs),
                                 previous |-> previousReviewCount,
                                 returned |-> newReviews(Len(r.prs),
                                                         previousReviewCount)]
                /\ refreshTick' =
                     IF newReviews(Len(r.prs), previousReviewCount) > 0
                        /\ ~currentPanel
                     THEN "offer" ELSE "idle"
           ELSE /\ UNCHANGED previousReviewCount
                /\ lastCheck' = [called |-> TRUE, failed |-> TRUE,
                                 current |-> 0,
                                 previous |-> previousReviewCount,
                                 returned |-> 0]
                /\ refreshTick' = "idle"
    /\ UNCHANGED <<currentPanel, webviews, openedBy, revealed, hasShownThisSession, config,
                   autoShowTimer, refreshInterval, command, dismissed>>
    /\ UNCHANGED <<storeVars, lastCall, initDone, query, startupVars>>

\* the user answers the notification of the interval callback
tickOfferAnswered(viewReviews) ==
    /\ refreshTick = "offer"
    /\ refreshTick' = "idle"
    /\ IF viewReviews
       THEN \E out \in RefreshOutcomes(octokit) : createOrShow("user", out)
       ELSE UNCHANGED <<octokit, cachedPRs, lastReviewCount, currentPanel,
                        webviews, openedBy, revealed>>
    /\ UNCHANGED <<hasShownThisSession, config, autoShowTimer, refreshInterval,
                   command, previousReviewCount, lastCheck, dismissed>>
    /\ UNCHANGED <<storeVars, lastCall, initDone, query, startupVars>>

\* onDidChangeConfiguration for prReviewReminder.refreshInterval: the interval
\* is cleared and, for a positive value, replaced by one that only refreshes
configChanged(newIntervalOn) ==
    /\ refreshInterval' = IF newIntervalOn THEN "replaced" ELSE "off"
    /\ refreshInterval' # refreshInterval
    /\ UNCHANGED <<currentPanel, webviews, openedBy, revealed, hasShownThisSession, config,
                   autoShowTimer, refreshTick, command, previousReviewCount, lastCheck,
                   dismissed>>
    /\ UNCHANGED <<octokit, storeVars, fetchVars, query, startupVars>>

\* the settings activate() can find
Configs == [autoShowOnStartup : BOOLEAN, onlyShowWhenPRsExist : BOOLEAN,
            refreshIntervalOn : BOOLEAN, showNotifications : BOOLEAN]

InitPanel ==
    /\ reviewStats = EmptyStats
    /\ octokit = "null"
    /\ tasks = [h \in Handlers |-> Idle]
    /\ lastOp = "none"
    /\ prevResync = NoResync
    /\ cachedPRs = <<>>
    /\ lastReviewCount = 0
    /\ lastCall = NoCall
    /\ initDone = FALSE
    /\ query = NoQuery
    /\ \E c \in Configs : ExtensionActivated(c)

NextPanel ==
    \/ initialize
    \/ showReviewsCommand
    \/ refreshCommand
    \/ dismissCommand
    \/ panelClosed
    \/ clearAndResyncCommand
    \/ clearAndResyncCommandSettles
    \/ autoShowFires
    \/ autoShowAuthSettles
    \/ autoShowFetchSettles
    \/ \E viewDetails \in BOOLEAN : autoShowNoteAnswered(viewDetails)
    \/ tickFires
    \/ tickCheckSettles
    \/ \E viewReviews \in BOOLEAN : tickOfferAnswered(viewReviews)
    \/ \E newIntervalOn \in BOOLEAN : configChanged(newIntervalOn)

SpecPanel == InitPanel /\ [][NextPanel]_vars

----------------------------------------------------------------------------
(* The startup sync of activate() *)

\* the instants at which the extension is activated: two on one day and one
\* on the day after
ActivationTimes == {5, 20, 29}

\* a callback that stores the date whether the sync has succeeded or not
lastSyncDateAlways(last, day, ok) == day

\* 'lastSyncDate' after the callback of the startup timer: the update
\* follows the awaited sync inside the try, the catch only logs
lastSyncDateAfter(last, day, ok) == IF ok THEN day ELSE last

\* the startup timer fires, 5 seconds after activate() has set it: the
\* callback calls syncReviewHistory(90), which awaits its fetch
startupSyncFires(h) ==
    /\ startupTimer = "armed"
    /\ tasks[h].pc = "idle"
    /\ startupTimer' = "syncing"
    /\ tasks' = [tasks EXCEPT ![h] =
                    [pc |-> "fetch", op |-> "syncReviewHistory",
                     fetched |-> <<>>, i |-> 1, clean |-> TRUE,
                     added |-> 0, returned |-> -1, thrown |-> NoError]]
    /\ UNCHANGED <<reviewStats, octokit, lastOp, prevResync>>
    /\ UNCHANGED <<fetchVars, query, panelVars, previousReviewCount, lastCheck,
                   lastSyncDate, today>>

\* the syncReviewHistory of the callback has returned or thrown
startupSyncSettles(h) ==
    /\ startupTimer = "syncing"
    /\ tasks[h].pc = "idle"
    /\ lastSyncDate' = lastSyncDateAfter(lastSyncDate, today,
                                         tasks[h].thrown = NoError)
    /\ startupTimer' = IF tasks[h].thrown = NoError THEN "done" ELSE "failed"
    /\ UNCHANGED <<octokit, storeVars, fetchVars, query>>
    /\ UNCHANGED <<panelVars, previousReviewCount, lastCheck, today>>

\* the window is closed with no call in flight and the extension is
\* activated again at instant 'now': globalState is what it was, the
\* service, the panel and the timers are new
activatedAgain(now) ==
    /\ startupTimer # "syncing"
    /\ SplitT0(toISOString(now)) >= today
    /\ today' = SplitT0(toISOString(now))
    /\ startupTimer' = IF startupSyncScheduled(lastSyncDate, today')
                       THEN "armed" ELSE "off"
    /\ octokit' = "null"
    /\ tasks' = [h \in DOMAIN tasks |-> Idle]
    /\ cachedPRs' = <<>>
    /\ lastReviewCount' = 0
    /\ lastCall' = NoCall
    /\ initDone' = FALSE
    /\ currentPanel' = FALSE
    /\ webviews' = 0
    /\ hasShownThisSession' = FALSE
    /\ autoShowTimer' = IF config.autoShowOnStartup THEN "armed" ELSE "off"
    /\ refreshInterval' = IF config.refreshIntervalOn THEN "initial" ELSE "off"
    /\ refreshTick' = "idle"
    /\ command' = "idle"
    /\ dismissed' = FALSE
    /\ openedBy' = "none"
    /\ revealed' = FALSE
    /\ lastCheck' = NoCheck
    /\ UNCHANGED <<reviewStats, lastOp, prevResync, query, config,
                   previousReviewCount, lastSyncDate>>

InitStartup ==
    /\ reviewStats = EmptyStats
    /\ octokit = "null"
    /\ tasks = [h \in Handlers |-> Idle]
    /\ lastOp = "none"
    /\ prevResync = NoResync
    /\ cachedPRs = <<>>
    /\ lastReviewCount = 0
    /\ lastCall = NoCall
    /\ initDone = FALSE
    /\ query = NoQuery
    /\ \E now \in ActivationTimes :
        \E last \in {NoDate} \cup { SplitT0(toISOString(t)) : t \in ActivationTimes } :
            /\ last <= SplitT0(toISOString(now))
            /\ ExtensionActivatedAt(DefaultConfig, last, now)

NextStartup ==
    \/ initialize
    \/ \E h \in Handlers : startupSyncFires(h)
    \/ \E h \in Handlers : syncFetchSettles(h)
    \/ \E h \in Handlers : syncRecordReview(h)
    \/ \E h \in Handlers : syncReturn(h)
    \/ \E h \in Handlers : startupSyncSettles(h)
    \/ \E now \in ActivationTimes : activatedAgain(now)

SpecStartup == InitStartup /\ [][NextStartup]_vars

----------------------------------------------------------------------------
(* Overlapping store calls *)

\* the overlapping syncReviewHistory calls of the extension: the one of the
\* startup timer and the one of the sync command (or of the panel)
RaceHandlers == {"startup", "manual"}

InitRace ==
    /\ reviewStats = EmptyStats
    /\ octokit = "null"
    /\ tasks = [h \in RaceHandlers |-> Idle]
    /\ lastOp = "none"
    /\ prevResync = NoResync
    /\ cachedPRs = <<>>
    /\ lastReviewCount = 0
    /\ lastCall = NoCall
    /\ initDone = FALSE
    /\ query = NoQuery
    /\ ExtensionActivated(DefaultConfig)

\* the pull requests the user clicks in the panel while the syncs run
RacePRs == {PR1, PR3}

\* the store calls that only add events, interleaved at their awaits
NextRace ==
    \/ \E h \in RaceHandlers : syncReviewHistoryCall(h)
    \/ \E h \in RaceHandlers : syncFetchAnswered(h, ResyncOutcomes(octokit))
    \/ \E h \in RaceHandlers : syncRecordReview(h)
    \/ \E h \in RaceHandlers : syncReturn(h)
    \/ \E pr \in RacePRs, t \in ClickTimes, lookup \in Statuses :
            markPRAsReviewed(pr, t, lookup)

SpecRace == InitRace /\ [][NextRace]_vars

----------------------------------------------------------------------------
(* Properties of the history store *)

\* the places of the stored events: (day, index in the day's list)
Places == { <<d, i>> : d \in DOMAIN reviewStats, i \in 1..3 * MaxStored }
Filled == { p \in Places : p[2] <= Len(reviewStats[p[1]].reviews) }
At(p) == reviewStats[p[1]].reviews[p[2]]

SameKey(a, b) == a.prId = b.prId /\ a.reviewedAt = b.reviewedAt

\* the stored events that carry the key of review
StoredWithKey(review) == { p \in Filled : SameKey(At(p), review) }

\* C1: the persisted map never holds two events with the same
\* (prId, reviewedAt) pair, whatever calls have run
C1_UniqueKey ==
    \A p \in Filled, q \in Filled : p # q => ~SameKey(At(p), At(q))

\* a sync has handed recordReview the same (prId, reviewedAt) twice and the
\* map holds that event once
C1_Witness ==
    \E h \in Handlers :
        /\ tasks[h].pc = "record"
        /\ tasks[h].i >= 3
        /\ SameKey(tasks[h].fetched[1], tasks[h].fetched[2])
        /\ Cardinality(StoredWithKey(tasks[h].fetched[1])) = 1

\* C2: in every persisted state the count of every day equals the length of
\* the day's list
C2_CountIsLength ==
    \A d \in DOMAIN reviewStats :
        reviewStats[d].count = Len(reviewStats[d].reviews)

\* removeReviewByPR has changed the map and has left events behind
C2_Witness ==
    /\ lastOp = "removeReviewByPR"
    /\ Stored(reviewStats) >= 1

\* C3: in every persisted state no day has an empty list (or a count of 0)
C3_NoEmptyDay ==
    \A d \in DOMAIN reviewStats :
        /\ Len(reviewStats[d].reviews) > 0
        /\ reviewStats[d].count # 0

\* cleanupLocalViewedReviews has removed the last events of the days it
\* found and has left no day behind
C3_Witness ==
    /\ lastOp = "cleanupLocalViewedReviews"
    /\ reviewStats = EmptyStats

\* the indices of the events of a list that are not VIEWED
NotViewed(reviews) == { i \in 1..Len(reviews) : reviews[i].reviewState # "VIEWED" }

\* the k-th smallest element of a set of indices
Nth(S, k) == CHOOSE i \in S : Cardinality({ j \in S : j <= i }) = k

\* the map after a cleanup: each day holds its events that are not VIEWED,
\* unchanged and in their order, and the days without such events are gone
C6_Post ==
    /\ DOMAIN reviewStats' \subseteq DOMAIN reviewStats
    /\ \A d \in DOMAIN reviewStats :
        LET old == reviewStats[d].reviews
            kept == NotViewed(old)
        IN IF kept = {}
           THEN d \notin DOMAIN reviewStats'
           ELSE /\ d \in DOMAIN reviewStats'
                /\ Len(reviewStats'[d].reviews) = Cardinality(kept)
                /\ \A k \in 1..Cardinality(kept) :
                    reviewStats'[d].reviews[k] = old[Nth(kept, k)]

\* C6: cleanupLocalViewedReviews removes exactly the VIEWED events; every
\* other event stays in its day, unchanged and in the same relative order,
\* and a day left without events leaves the map
C6_CleanupRemovesOnlyViewed ==
    [][cleanupLocalViewedReviewsCall => C6_Post]_vars

\* a cleanup has removed events and other events have survived it
C6_Witness ==
    /\ lastOp = "cleanupLocalViewedReviews"
    /\ Stored(reviewStats) >= 1

\* C7: a clearAndResync that runs alone right after a clearAndResync that
\* ran alone, and that fetches the same reviews, leaves the map the first
\* one left
C7_ResyncIdempotent ==
    [][\A h \in Handlers :
          ( /\ syncReturn(h)
            /\ tasks[h].op = "clearAndResync"
            /\ tasks[h].clean
            /\ prevResync.valid
            /\ prevResync.fetched = tasks[h].fetched )
          => reviewStats' = prevResync.stats]_vars

\* two clearAndResync calls in a row have fetched the same non-empty list
C7_Witness ==
    /\ prevResync.valid
    /\ prevResync.repeated
    /\ Len(prevResync.fetched) >= 1
    /\ reviewStats = prevResync.stats

\* the map after recordReview of an event that was not stored: the event is
\* the last of its day, the day's count is one more, the other days are as
\* they were
C8_Post(review) ==
    LET date == review.reviewedAt.date
        old == IF date \in DOMAIN reviewStats THEN reviewStats[date].reviews ELSE <<>>
        oldCount == IF date \in DOMAIN reviewStats THEN reviewStats[date].count ELSE 0
    IN /\ DOMAIN reviewStats' = DOMAIN reviewStats \cup {date}
       /\ reviewStats'[date].reviews = old \o <<review>>
       /\ reviewStats'[date].count = oldCount + 1
       /\ \A d \in DOMAIN reviewStats : d # date => reviewStats'[d] = reviewStats[d]

\* C8: recordReview of an event whose (prId, reviewedAt) is not stored
\* appends it to the day of its reviewedAt and raises that day's count by
\* one, and leaves the other days alone
C8_RecordAppends ==
    [][/\ \A h \in Handlers :
            ( /\ syncRecordReview(h)
              /\ StoredWithKey(tasks[h].fetched[tasks[h].i]) = {} )
            => C8_Post(tasks[h].fetched[tasks[h].i])
       /\ \A pr \in PRs, t \in ClickTimes :
            ( /\ markPRAsReviewed(pr, t, 200)
              /\ octokit # "null"
              /\ pr.author # Me
              /\ StoredWithKey(ViewedEvent(pr, t)) = {} )
            => C8_Post(ViewedEvent(pr, t))]_vars

\* a sync has recorded A, a duplicate of A and then C (another pull request,
\* same day) into an empty map: the day holds A then C with count 2
C8_Witness ==
    \E h \in Handlers :
        /\ tasks[h].pc = "record"
        /\ Len(tasks[h].fetched) = 3
        /\ tasks[h].i = 4
        /\ tasks[h].fetched[1] = tasks[h].fetched[2]
        /\ tasks[h].fetched[3].prId # tasks[h].fetched[1].prId
        /\ tasks[h].fetched[3].reviewedAt.date = tasks[h].fetched[1].reviewedAt.date
        /\ DOMAIN reviewStats = {tasks[h].fetched[1].reviewedAt.date}
        /\ \A d \in DOMAIN reviewStats :
            /\ reviewStats[d].count = 2
            /\ reviewStats[d].reviews = <<tasks[h].fetched[1], tasks[h].fetched[3]>>

\* C11: syncReviewHistory run again on the same or an overlapping list of
\* reviews adds no event that is stored already: a fetched event whose
\* (prId, reviewedAt) is stored leaves the map as it is, and a new one leaves
\* every stored event in its place and raises the count of its own day only
C11_SyncIdempotent ==
    [][\A h \in Handlers :
          syncRecordReview(h) =>
            LET review == tasks[h].fetched[tasks[h].i]
                isNew == StoredWithKey(review) = {}
            IN /\ ~isNew => reviewStats' = reviewStats
               /\ \A d \in DOMAIN reviewStats :
                    /\ d \in DOMAIN reviewStats'
                    /\ SubSeq(reviewStats'[d].reviews, 1, Len(reviewStats[d].reviews))
                         = reviewStats[d].reviews
                    /\ reviewStats'[d].count = reviewStats[d].count
                         + (IF isNew /\ d = SplitT0(review.reviewedAt) THEN 1 ELSE 0)]_vars

\* a syncReviewHistory that ran alone has fetched two different events, one
\* of them stored before it started, and has inserted the other one only
C11_Witness ==
    \E h \in Handlers :
        /\ tasks[h].pc = "record"
        /\ tasks[h].op = "syncReviewHistory"
        /\ tasks[h].clean
        /\ Len(tasks[h].fetched) = 2
        /\ tasks[h].i = 3
        /\ ~SameKey(tasks[h].fetched[1], tasks[h].fetched[2])
        /\ tasks[h].added = 1
        /\ Cardinality(StoredWithKey(tasks[h].fetched[1])) = 1
        /\ Cardinality(StoredWithKey(tasks[h].fetched[2])) = 1

\* C12: a syncReviewHistory that succeeds returns the number of events the
\* fetch returned, whatever number of them it has inserted
C12_ReturnsFetchedCount ==
    [][\A h \in Handlers :
          syncReturn(h) => tasks'[h].returned = Len(tasks[h].fetched)]_vars

\* a sync that ran alone has returned a positive number and has inserted
\* nothing: every event it fetched was stored
C12_Witness ==
    \E h \in Handlers :
        /\ tasks[h].pc = "idle"
        /\ tasks[h].clean
        /\ tasks[h].returned >= 1
        /\ tasks[h].added = 0
        /\ lastOp = "recordReview"
        /\ Stored(reviewStats) >= 1

----------------------------------------------------------------------------
(* Properties of the range queries *)

\* the UTC calendar day of an instant
DayOf(t) == t \div HoursPerDay

\* the stored count of a day, 0 when the map has no such day
StoredCount(d) == IF d \in DOMAIN reviewStats THEN reviewStats[d].count ELSE 0

\* C4: getStatsForDateRange(start, end) returns one entry per calendar day
\* from the day of start to the day of end, in order, no day skipped or
\* repeated, each with the stored count of its day or 0
C4_OneEntryPerDay ==
    query.asked =>
        LET n == DayOf(query.endDate) - DayOf(query.startDate) + 1
        IN /\ Len(query.stats) = n
           /\ \A i \in 1..Len(query.stats) :
                /\ query.stats[i].date = DayOf(query.startDate) + i - 1
                /\ query.stats[i].count = StoredCount(query.stats[i].date)

\* C5: getTotalReviewCount(start, end) is the sum of the counts that
\* getStatsForDateRange(start, end) returns on the same map
C5_TotalIsSumOfStats ==
    (query.asked /\ query.total # -1) =>
        query.total = SumOver([i \in 1..Len(query.stats) |-> query.stats[i].count],
                              1..Len(query.stats))

\* a total was asked for a range that has days with events and days without
C5_Witness ==
    /\ query.asked
    /\ query.total >= 2
    /\ \E i \in 1..Len(query.stats) : query.stats[i].count = 0
    /\ \E i \in 1..Len(query.stats) : query.stats[i].count > 0

----------------------------------------------------------------------------
(* Properties of the remote fetcher *)

\* C9: no list returned by getAssignedPRReviews or getCachedPRs, and no
\* cached snapshot, holds an item whose draft flag is true
C9_NoDraftReturned ==
    /\ \A i \in 1..Len(cachedPRs) : ~cachedPRs[i].draft
    /\ lastCall.op \in {"getAssignedPRReviews", "getCachedPRs"} =>
        \A i \in 1..Len(lastCall.result) : ~lastCall.result[i].draft

\* getAssignedPRReviews has got a draft among the items of the search and
\* has returned and cached the other item alone
C9_Witness ==
    /\ lastCall.op = "getAssignedPRReviews"
    /\ lastCall.error = NoError
    /\ Len(lastCall.env.items) = 2
    /\ \E i \in 1..2 : lastCall.env.items[i].ok /\ lastCall.env.items[i].draft
    /\ Len(lastCall.result) = 1
    /\ cachedPRs = lastCall.result

\* C10: getCompletedReviews returns no event of a pull request whose author
\* is the authenticated user, and does not request its review list
C10_SelfAuthoredSkipped ==
    lastCall.op = "getCompletedReviews" =>
        \A i \in 1..Len(lastCall.env.items) :
            lastCall.env.items[i].pr.author = Me =>
                /\ \A k \in 1..Len(lastCall.result) :
                    lastCall.result[k].prId # lastCall.env.items[i].pr.id
                /\ \A k \in 1..Len(lastCall.requested) :
                    lastCall.requested[k] # lastCall.env.items[i].pr.id

\* getCompletedReviews has met a pull request of the user that carries a
\* submitted review of the user, next to a pull request that gave events
C10_Witness ==
    /\ lastCall.op = "getCompletedReviews"
    /\ lastCall.error = NoError
    /\ Len(lastCall.result) >= 1
    /\ \E i \in 1..Len(lastCall.env.items) :
        /\ lastCall.env.items[i].pr.author = Me
        /\ lastCall.env.items[i].ok
        /\ \E k \in 1..Len(lastCall.env.items[i].reviews) :
            /\ lastCall.env.items[i].reviews[k].user = Me
            /\ lastCall.env.items[i].reviews[k].submitted_at # NoTime

\* the elements of a returned list that belong to pull request 'id'
OfPR(list, id) == SelectSeq(list, LAMBDA el : el.id = id)

\* the pull request built from the search item alone
SummaryOnly(el) ==
    /\ el.additions = 0
    /\ el.deletions = 0
    /\ el.review_comments = 0
    /\ el.requested_reviewers = <<>>
    /\ el.draft = FALSE

\* C14: when pulls.get fails for an item, getAssignedPRReviews still
\* returns: the item is in the list once, built from the search item with
\* additions, deletions and review_comments 0, no requested reviewers and
\* draft false, and the rest of the list is what it is without that item
C14_DetailFailureDegrades ==
    (lastCall.op = "getAssignedPRReviews" /\ Len(lastCall.env.items) > 0) =>
        LET items == lastCall.env.items
            others == SelectSeq(items, LAMBDA item : item.ok)
            failed == { items[i].pr.id : i \in { j \in 1..Len(items) : ~items[j].ok } }
        IN /\ lastCall.error = NoError
           /\ \A i \in 1..Len(items) :
                ~items[i].ok =>
                    LET els == OfPR(lastCall.result, items[i].pr.id)
                    IN /\ Len(els) = 1
                       /\ els[1].number = items[i].pr.number
                       /\ els[1].repository = items[i].pr.repository
                       /\ SummaryOnly(els[1])
           /\ SelectSeq(lastCall.result, LAMBDA el : el.id \notin failed)
                = getAssignedPRReviews("client", [lastCall.env EXCEPT !.items = others]).prs

\* a call has returned two pull requests, the first from the search item
\* alone after its pulls.get failed, the second with its details
C14_Witness ==
    /\ lastCall.op = "getAssignedPRReviews"
    /\ lastCall.error = NoError
    /\ Len(lastCall.env.items) = 2
    /\ ~lastCall.env.items[1].ok
    /\ lastCall.env.items[2].ok
    /\ Len(lastCall.result) = 2
    /\ SummaryOnly(lastCall.result[1])
    /\ lastCall.result[2].additions > 0

\* C15: a pull request that is a draft on the remote is in no list that
\* getAssignedPRReviews returns or caches, whether its pulls.get has
\* answered or failed
C15_RemoteDraftAbsent ==
    (lastCall.op = "getAssignedPRReviews" /\ lastCall.error = NoError) =>
        \A i \in 1..Len(lastCall.env.items) :
            lastCall.env.items[i].draft =>
                /\ OfPR(lastCall.result, lastCall.env.items[i].pr.id) = <<>>
                /\ OfPR(cachedPRs, lastCall.env.items[i].pr.id) = <<>>

\* the events of a returned list that belong to pull request 'id'
EventsOfPR(list, id) == SelectSeq(list, LAMBDA ev : ev.prId = id)

\* the indices of the reviews of a list that the user has submitted
SubmittedByUser(reviews) ==
    { k \in 1..Len(reviews) :
        reviews[k].user = Me /\ reviews[k].submitted_at # NoTime }

\* C16: for a pull request of another author whose review list arrives,
\* getCompletedReviews returns one event per review of the user that has a
\* submitted_at, in the order of the list, with reviewedAt = submitted_at
\* and prId = the id of the pull request, and no event for the other reviews
C16_OneEventPerSubmittedReview ==
    (lastCall.op = "getCompletedReviews" /\ lastCall.error = NoError) =>
        \A i \in 1..Len(lastCall.env.items) :
            LET item == lastCall.env.items[i]
                events == EventsOfPR(lastCall.result, item.pr.id)
                mine == SubmittedByUser(item.reviews)
            IN (item.ok /\ item.pr.author # Me) =>
                /\ Len(events) = Cardinality(mine)
                /\ \A k \in 1..Len(events) :
                    /\ events[k].reviewedAt = item.reviews[Nth(mine, k)].submitted_at
                    /\ events[k].reviewState = item.reviews[Nth(mine, k)].state
                    /\ events[k].prNumber = item.pr.number
                    /\ events[k].repository = item.pr.repository

\* a call has met a pull request with a submitted review of the user next
\* to a review that is pending or of someone else, and has returned one
\* event for it
C16_Witness ==
    /\ lastCall.op = "getCompletedReviews"
    /\ lastCall.error = NoError
    /\ \E i \in 1..Len(lastCall.env.items) :
        LET item == lastCall.env.items[i]
        IN /\ item.ok
           /\ item.pr.author # Me
           /\ Len(item.reviews) = 2
           /\ Cardinality(SubmittedByUser(item.reviews)) = 1
           /\ Len(EventsOfPR(lastCall.result, item.pr.id)) = 1

\* C17: when pulls.listReviews fails for a pull request, getCompletedReviews
\* still returns: no event of that pull request, and the events of the other
\* pull requests as without it
C17_ReviewListFailureSkipped ==
    (lastCall.op = "getCompletedReviews" /\ Len(lastCall.env.items) > 0) =>
        LET items == lastCall.env.items
            others == SelectSeq(items, LAMBDA item : item.ok)
        IN /\ lastCall.error = NoError
           /\ \A i \in 1..Len(items) :
                ~items[i].ok => EventsOfPR(lastCall.result, items[i].pr.id) = <<>>
           /\ \A i \in 1..Len(items) :
                (items[i].ok /\ items[i].pr.author # Me) =>
                    EventsOfPR(lastCall.result, items[i].pr.id)
                        = UserReviewEvents(items[i], Me)
           /\ Len(lastCall.result)
                = SumOver([i \in 1..Len(others) |->
                              IF others[i].pr.author # Me
                              THEN Len(UserReviewEvents(others[i], Me)) ELSE 0],
                          1..Len(others))

\* a call has returned the events of the pull request that follows one
\* whose review list could not be fetched
C17_Witness ==
    /\ lastCall.op = "getCompletedReviews"
    /\ lastCall.error = NoError
    /\ Len(lastCall.env.items) = 2
    /\ ~lastCall.env.items[1].ok
    /\ lastCall.env.items[1].pr.author # Me
    /\ lastCall.env.items[2].ok
    /\ Len(lastCall.result) >= 1
    /\ lastCall.requested = <<lastCall.env.items[1].pr.id, lastCall.env.items[2].pr.id>>

\* the status of the request that fails first in a call's try block
FailedStatus(env) == IF env.user # 200 THEN env.user ELSE env.search

\* C18: when the user lookup or the search of getAssignedPRReviews fails
\* with status 401 the client is cleared and the caller gets the
\* authentication-expired error; with another status the client is kept and
\* the error of the request is rethrown; and a call that finds no client
\* runs authenticate() before any request
C18_ExpiredClearsClient ==
    [][getAssignedPRReviewsCall =>
        LET env == lastCall'.env
            auth == authenticate("null", env.auth)
        IN /\ (FailedStatus(env) = 401) =>
                (lastCall'.error = AuthExpired /\ octokit' = "null")
           /\ (FailedStatus(env) = 500) =>
                (lastCall'.error = HttpError(500) /\ octokit' = "client")
           /\ (octokit = "null" /\ auth.error # NoError) =>
                (lastCall'.error = auth.error /\ lastCall'.asked = <<>>)]_vars

\* a call that had a client has got a 401 from the search and has left no
\* client behind
C18_Witness ==
    /\ lastCall.op = "getAssignedPRReviews"
    /\ lastCall.before = "client"
    /\ lastCall.env.user = 200
    /\ lastCall.env.search = 401
    /\ lastCall.error = AuthExpired
    /\ octokit = "null"

\* C19: when the user lookup or the search of getCompletedReviews fails with
\* status 401 the caller gets the authentication-expired error and the
\* client is cleared, as in getAssignedPRReviews
C19_CompletedExpiredClearsClient ==
    (lastCall.op = "getCompletedReviews" /\ FailedStatus(lastCall.env) = 401) =>
        (lastCall.error = AuthExpired /\ octokit = "null")

\* the host has no session to give and the settings hold no token
NoCredential(a) == a.s1 # "session" /\ a.token = "none" /\ a.s2 # "session"

\* C20 as stated: with no client and no credential to be had, the two
\* methods fail with 'Not authenticated with GitHub' and make no request
C20_NotAuthenticatedError ==
    ( /\ lastCall.op \in {"getAssignedPRReviews", "getCompletedReviews"}
      /\ lastCall.before = "null"
      /\ NoCredential(lastCall.env.auth) )
    => (lastCall.error = NotAuthenticated /\ lastCall.asked = <<>>)

\* C20 as amended: with no client and no credential to be had, the two
\* methods fail with the error authenticate() throws ('No GitHub
\* authentication available', or the rejection of getSession) and make no
\* request
C20_AuthenticateErrorNoRequest ==
    ( /\ lastCall.op \in {"getAssignedPRReviews", "getCompletedReviews"}
      /\ lastCall.before = "null"
      /\ NoCredential(lastCall.env.auth) )
    => /\ lastCall.error = IF lastCall.env.auth.s2 = "none"
                            THEN NoAuthAvailable ELSE SessionRejected
       /\ lastCall.asked = <<>>
       /\ lastCall.requested = <<>>
       /\ lastCall.result = <<>>

\* getCompletedReviews has been called after initialize() had found no
\* credential, has found none either and has thrown
C20_Witness ==
    /\ initDone
    /\ lastCall.op = "getCompletedReviews"
    /\ lastCall.before = "null"
    /\ NoCredential(lastCall.env.auth)
    /\ lastCall.error = NoAuthAvailable

----------------------------------------------------------------------------
(* Properties of the extension *)

\* C13: once the dismiss command has closed a panel, a panel is created only
\* when the user asks for it (a command or the action of a notification)
C13_DismissedStaysClosed ==
    [][(dismissed /\ ~currentPanel /\ currentPanel') => openedBy' = "user"]_vars

----------------------------------------------------------------------------
(* Properties of the store and the extension, continued *)

\* C21: when the fetch of a syncReviewHistory fails, the call ends there
\* with the error the fetch threw (it does not fetch again), it has handed
\* nothing to recordReview and returned nothing, and neither its call nor
\* the failure writes the map
C21_SyncFailurePropagates ==
    [][\A h \in Handlers :
          /\ syncReviewHistoryCall(h) => reviewStats' = reviewStats
          /\ ( /\ tasks[h].op = "syncReviewHistory"
               /\ syncFetchSettles(h)
               /\ tasks'[h].pc # "record" )
             => /\ tasks'[h].pc = "idle"
                /\ \E out \in CompletedOutcomes(octokit) :
                      /\ out.error # NoError
                      /\ octokit' = out.octokit
                      /\ tasks'[h].thrown = out.error
                /\ tasks'[h].i = 1
                /\ tasks'[h].added = 0
                /\ tasks'[h].returned = -1
                /\ reviewStats' = reviewStats
                /\ lastOp' = lastOp]_vars

\* a syncReviewHistory has failed on a server error over a map that holds
\* events
C21_Witness ==
    \E h \in Handlers :
        /\ tasks[h].pc = "idle"
        /\ tasks[h].op = "syncReviewHistory"
        /\ tasks[h].thrown = HttpError(500)
        /\ Stored(reviewStats) >= 1

\* the events of a list that removeReviewByPR(prNumber, repository) keeps
NotOfPR(reviews, prNumber, repository) ==
    { i \in 1..Len(reviews) :
        reviews[i].prNumber # prNumber \/ reviews[i].repository # repository }

\* the map after removeReviewByPR(prNumber, repository): each day holds its
\* events that differ in the number or in the repository, unchanged and in
\* their order, and nothing else
C22_Post(prNumber, repository) ==
    /\ DOMAIN reviewStats' \subseteq DOMAIN reviewStats
    /\ \A d \in DOMAIN reviewStats :
        LET old == reviewStats[d].reviews
            kept == NotOfPR(old, prNumber, repository)
        IN IF kept = {}
           THEN d \notin DOMAIN reviewStats'
           ELSE /\ d \in DOMAIN reviewStats'
                /\ Len(reviewStats'[d].reviews) = Cardinality(kept)
                /\ \A k \in 1..Cardinality(kept) :
                    reviewStats'[d].reviews[k] = old[Nth(kept, k)]

Handed(h) ==
    IF tasks[h].pc = "record"
    THEN { tasks[h].fetched[k] : k \in 1..(tasks[h].i - 1) }
    ELSE {}

\* every event handed to recordReview by a call in flight is stored once
C23_HandedOnce ==
    \A h \in DOMAIN tasks : \A review \in Handed(h) :
        Cardinality(StoredWithKey(review)) = 1

\* a step keeps every stored event in its place, and a markPRAsReviewed of a
\* pull request of someone else leaves its event stored once
C23_Step ==
    /\ \A d \in DOMAIN reviewStats :
        /\ d \in DOMAIN reviewStats'
        /\ Len(reviewStats'[d].reviews) >= Len(reviewStats[d].reviews)
        /\ \A k \in 1..Len(reviewStats[d].reviews) :
              reviewStats'[d].reviews[k] = reviewStats[d].reviews[k]
    /\ \A pr \in PRs, t \in ClickTimes :
          ( /\ markPRAsReviewed(pr, t, 200)
            /\ octokit = "client"
            /\ pr.author # Me )
          => Cardinality({ d \in DOMAIN reviewStats' :
                 \E k \in 1..Len(reviewStats'[d].reviews) :
                     SameKey(reviewStats'[d].reviews[k], ViewedEvent(pr, t)) }) = 1

\* C23: whatever the interleaving of two syncReviewHistory runs and of
\* markPRAsReviewed calls at their awaits, every event handed to recordReview
\* is stored exactly once from then on: no later write drops or moves it and
\* none stores it a second time
C23_NoLostUpdate ==
    [][C23_Step /\ C23_HandedOnce' /\ C1_UniqueKey']_vars

\* both syncs have fetched the same reviews and each has handed its first
\* one to recordReview, while a markPRAsReviewed has stored a VIEWED event
\* between their steps
C23_Witness ==
    /\ \A h \in RaceHandlers :
          /\ tasks[h].pc = "record"
          /\ tasks[h].i = 2
          /\ ~tasks[h].clean
    /\ tasks["startup"].fetched = tasks["manual"].fetched
    /\ \E p \in Filled : At(p).reviewState = "VIEWED"

\* C24: checkForNewReviews returns max(0, current - previous), current
\* being the length of the list it has fetched and previous the count
\* stored before the call (0 at first); the number is never negative, the
\* stored count is current after a call that succeeds and is what it was
\* after a call whose fetch fails
C24_NewReviewsClamped ==
    lastCheck.called =>
        IF lastCheck.failed
        THEN previousReviewCount = lastCheck.previous
        ELSE /\ lastCheck.current = lastReviewCount
             /\ lastCheck.current = Len(cachedPRs)
             /\ lastCheck.returned >= 0
             /\ lastCheck.returned =
                  IF lastCheck.current > lastCheck.previous
                  THEN lastCheck.current - lastCheck.previous ELSE 0
             /\ previousReviewCount = lastCheck.current

\* a call has found fewer pull requests than the count stored by the call
\* before it and has returned 0
C24_Witness ==
    /\ lastCheck.called
    /\ ~lastCheck.failed
    /\ lastCheck.previous = 2
    /\ lastCheck.current = 1
    /\ lastCheck.returned = 0
    /\ previousReviewCount = 1

\* C25: the startup sync is scheduled at an activation exactly when the
\* stored lastSyncDate differs from the date of the activation; lastSyncDate
\* changes only when the sync of the callback has returned, and then to that
\* date; a sync that throws leaves it as it was, so that the timer is set
\* again by the next activation of the same day
C25_StartupSyncOncePerDay ==
    [][/\ \A now \in ActivationTimes :
            activatedAgain(now) =>
                /\ startupTimer' \in {"armed", "off"}
                /\ startupTimer' = "armed" <=> lastSyncDate' # today'
       /\ lastSyncDate' # lastSyncDate =>
            /\ startupTimer = "syncing"
            /\ startupTimer' = "done"
            /\ \A h \in Handlers : tasks[h].thrown = NoError /\ tasks[h].returned >= 0
            /\ lastSyncDate' = today
       /\ (startupTimer = "syncing" /\ startupTimer' # "syncing") =>
            \A h \in Handlers :
                IF tasks[h].thrown # NoError
                THEN lastSyncDate' = lastSyncDate /\ startupTimer' = "failed"
                ELSE lastSyncDate' = today /\ startupTimer' = "done"
       /\ startupTimer' = "failed" => lastSyncDate' # today'
       /\ startupTimer' = "armed" => lastSyncDate' # today'
       /\ startupTimer' = "off" => lastSyncDate' = today']_vars

\* the sync of an earlier day has succeeded and the one of today has failed:
\* the stored date is still the earlier one
C25_Witness ==
    /\ startupTimer = "failed"
    /\ lastSyncDate # NoDate
    /\ lastSyncDate < today

\* C26: clearAndResync writes the empty map before it fetches; when the
\* fetch fails the call ends with the error of the fetch and writes nothing
\* more, so that a call that ran alone leaves the map empty; a call that ran
\* alone and succeeds leaves exactly the events it has fetched
C26_ClearThenFetch ==
    [][\A h \in Handlers :
          /\ clearAndResyncCall(h) =>
                /\ reviewStats' = EmptyStats
                /\ tasks'[h].pc = "fetch"
          /\ ( /\ tasks[h].op = "clearAndResync"
               /\ syncFetchSettles(h)
               /\ tasks'[h].pc # "record" )
             => /\ tasks'[h].pc = "idle"
                /\ \E out \in CompletedOutcomes(octokit) :
                      /\ out.error # NoError
                      /\ tasks'[h].thrown = out.error
                /\ tasks'[h].returned = -1
                /\ reviewStats' = reviewStats
                /\ tasks[h].clean => reviewStats' = EmptyStats
          /\ ( /\ tasks[h].op = "clearAndResync"
               /\ syncReturn(h)
               /\ tasks[h].clean )
             => /\ \A p \in Filled :
                      \E k \in 1..Len(tasks[h].fetched) : tasks[h].fetched[k] = At(p)
                /\ \A k \in 1..Len(tasks[h].fetched) :
                      Cardinality({ p \in Filled : At(p) = tasks[h].fetched[k] }) = 1
                /\ reviewStats' = reviewStats]_vars

\* a clearAndResync that ran alone has cleared a map that held events and
\* has failed at its fetch: the map is empty
C26_Witness ==
    \E h \in Handlers :
        /\ tasks[h].pc = "idle"
        /\ tasks[h].op = "clearAndResync"
        /\ tasks[h].thrown # NoError
        /\ tasks[h].clean
        /\ lastOp = "clearAndResync"
        /\ reviewStats = EmptyStats

\* C27: with showNotifications enabled every tick of the interval timer goes
\* on to checkForNewReviews, for the timer set at activation and for the one
\* set after a change of refreshInterval alike, and with the interval off no
\* tick fires
C27_EveryTickChecks ==
    [][tickFires =>
          /\ refreshInterval # "off"
          /\ config.showNotifications => refreshTick' = "check"]_vars

\* C28: there is at most one review panel, and it is the one currentPanel
\* holds: a panel is created only when there is none, a createOrShow that
\* finds a panel reveals it and creates nothing, and dispose leaves no panel
C28_SinglePanel ==
    [][/\ webviews' <= 1
       /\ currentPanel' <=> webviews' = 1
       /\ webviews' > webviews => ~currentPanel /\ webviews = 0
       /\ (showReviewsCommand /\ currentPanel) =>
             currentPanel' /\ webviews' = webviews /\ revealed'
       /\ panelClosed => ~currentPanel' /\ webviews' = 0 /\ ~revealed']_vars

\* the user has opened the panel before the auto-show timer fired, and a
\* createOrShow that came later has found it and revealed it
C28_Witness ==
    /\ currentPanel
    /\ webviews = 1
    /\ revealed
    /\ openedBy = "user"
    /\ config.autoShowOnStartup
    /\ autoShowTimer = "done"

\* C29: markPRAsReviewed leaves the map alone when the pull request is the
\* user's own, when the user lookup fails and when there is no client;
\* otherwise it hands recordReview one VIEWED event with the id, the number
\* and the repository of the pull request, stamped with the instant of the
\* click, which is appended to its day unless its key is stored already
C29_ViewedOnlyForOthers ==
    [][\A pr \in PRs, t \in ClickTimes, lookup \in Statuses :
          markPRAsReviewed(pr, t, lookup) =>
            IF octokit = "null" \/ lookup # 200 \/ pr.author = Me
            THEN reviewStats' = reviewStats
            ELSE LET review ==
                        [prId |-> pr.id, prNumber |-> pr.number,
                         repository |-> pr.repository,
                         reviewedAt |-> [date |-> t \div HoursPerDay,
                                         time |-> t % HoursPerDay, ms |-> TRUE],
                         reviewState |-> "VIEWED"]
                 IN IF StoredWithKey(review) # {}
                    THEN reviewStats' = reviewStats
                    ELSE C8_Post(review)]_vars

\* a click on a pull request of someone else has stored a VIEWED event that
\* carries its id, number and repository
C29_Witness ==
    /\ lastOp = "markPRAsReviewed"
    /\ octokit = "client"
    /\ \E p \in Filled :
          /\ At(p).reviewState = "VIEWED"
          /\ At(p).prId = PR2.id
          /\ At(p).prNumber = PR2.number
          /\ At(p).repository = PR2.repository
    /\ \A p \in Filled : At(p).prId # PR3.id

\* C30: when the authenticate() of a fetching call throws, no client is left
\* in this.octokit, so that the next call authenticates again
C30_FailedAuthLeavesNoClient ==
    [][( /\ lastCall.op = "none"
         /\ lastCall'.op \in {"getAssignedPRReviews", "getCompletedReviews"}
         /\ lastCall'.before = "null"
         /\ lastCall'.error \in {InvalidToken, NoAuthAvailable, SessionRejected} )
       => octokit' = "null"]_vars

====
